---- MODULE Spec2Model ----
(***************************************************************************)
(* Binding & Action Runtime of the low-code builder: the ExpressionEngine   *)
(* (evaluate / cache / sandbox denylist) and the ActionManager (registry,   *)
(* run, listeners, chains).                                                 *)
(***************************************************************************)
EXTENDS Integers, Sequences, FiniteSets, TLC

VARIABLES
    context,    \* ExpressionEngine.context: the five namespaces
    cache,      \* ExpressionEngine.cache: expression text -> cached value
    counter,    \* state of the host's side-effecting utility utils.tick
    elast,      \* the engine call that completed last, with what it returned
    seen,       \* per expression: what its first evaluate since the cache was last emptied returned
    seenU,      \* per expression: what its first evaluate since the last updateContext returned
    stale       \* the cache entries the last updateContext dropped whose value it changed

engineVars == <<context, cache, counter, elast, seen, seenU, stale>>

VARIABLES
    actions,    \* ActionManager.actions: id -> definition
    listeners,  \* ActionManager.listeners: id -> listeners in insertion order
    results,    \* ActionManager.results: id -> last stored result
    storage,    \* window.localStorage (ambient state of the page): key -> string
    runs,       \* the run calls in flight, one per slot
    chain,      \* the runActionChain call in flight
    alast,      \* the ActionManager call that completed last, with what it returned
    dropped,    \* per id: listeners unregisterAction dropped and nobody added again
    calls,      \* number of calls the host has made on the ActionManager
    widgetUpdateCallback,   \* ActionManager.widgetUpdateCallback is set
    navigationCallback,     \* ActionManager.navigationCallback is set
    modalCallback,          \* ActionManager.modalCallback is set
    delivered,  \* the calls the widget-update callback received, in order
    effects,    \* the calls the other host callbacks and the page's globals received, in order
    unregistered    \* per id: unregisterAction was called and run was not called since

managerVars == <<actions, listeners, results, runs, chain, alast, dropped, calls,
                 widgetUpdateCallback, navigationCallback, modalCallback,
                 delivered, effects, unregistered>>

VARIABLES
    history,        \* HistoryManager.history, oldest entry first
    currentIndex,   \* HistoryManager.currentIndex (zero-based, -1 when nothing to undo)
    hlast,          \* the HistoryManager call that completed last, with what it returned
    entries,        \* number of addEntry calls so far (the next entry's id)
    undos,          \* number of undo calls so far
    clears          \* number of clear calls so far

historyVars == <<history, currentIndex, hlast, entries, undos, clears>>

VARIABLES
    db,     \* the backend's tables: number of project rows, pages persisted, page lists written
    save,   \* the saveProject or updateProject call in flight
    slast,  \* the PersistenceService call that completed last, with what it resolved to
    saves   \* number of saveProject and updateProject calls so far

serviceVars == <<db, save, slast, saves>>

VARIABLES
    widgetsState,   \* RuntimeRenderer's widgetsState as of the last render
    mounted,        \* RuntimeRenderer has rendered once
    effectsDue,     \* the effects of the last render that have not run yet
    queuedInitial,  \* setWidgetsState(initialState) is queued for the next render
    applied,        \* number of widget-update callbacks the renders have taken in
    rlast,          \* the last render: its widget state, the engine's context, the props
    renders         \* number of renders so far

rendererVars == <<widgetsState, mounted, effectsDue, queuedInitial, applied, rlast, renders>>

\* the state of the application outside the engine and the ActionManager
appVars == <<historyVars, serviceVars, rendererVars>>

vars == <<engineVars, storage, managerVars, appVars>>

----------------------------------------------------------------------------
(* Bounds of the model                                                      *)

\* the side-effecting utility is called at most this many times
MaxTicks == 3
\* run calls that can be in flight at the same time
MaxRuns == 2
\* longest list of ids given to runActionChain
MaxChain == 2
\* saveProject and updateProject calls in one behaviour
MaxSaves == 2
\* renders of the RuntimeRenderer in one behaviour
MaxRenders == 4
\* calls the host makes on the ActionManager in one behaviour
MaxCalls == 3
\* addEntry calls on the HistoryManager
MaxEntries == 52
\* undo calls on the HistoryManager
MaxUndos == 2
\* clear calls on the HistoryManager
MaxClears == 1

----------------------------------------------------------------------------
(* JavaScript values and call outcomes                                      *)

Undefined == [t |-> "undefined"]
Str(s) == [t |-> "string", s |-> s]
Num(n) == [t |-> "number", n |-> n]
Null == [t |-> "null"]
Bool(b) == [t |-> "boolean", b |-> b]

Return(v) == [k |-> "return", value |-> v]
Throw(m) == [k |-> "throw", message |-> m]

\* a Map / plain object as a function with a varying domain
MapGet(m, key) == IF key \in DOMAIN m THEN m[key] ELSE Undefined
MapSet(m, key, v) == [x \in DOMAIN m \cup {key} |-> IF x = key THEN v ELSE m[x]]
MapDelete(m, key) == [x \in DOMAIN m \ {key} |-> m[x]]
EmptyMap == [x \in {} |-> Undefined]

\* String.prototype.includes
Includes(s, sub) ==
    \E i \in 1..(Len(s) - Len(sub) + 1) : SubSeq(s, i, i + Len(sub) - 1) = sub

Min(S) == CHOOSE x \in S : \A y \in S : x <= y

----------------------------------------------------------------------------
(* ExpressionEngine                                                         *)

Namespaces == {"widgets", "actions", "page", "utils", "store"}

\* createUtilsObject(): the names of the built-in utility functions
DefaultUtils ==
    [n \in {"formatDate", "formatCurrency", "formatNumber", "parseJSON",
            "stringifyJSON", "toLowerCase", "toUpperCase", "trim", "split",
            "join", "map", "filter", "find", "sum", "average", "min", "max",
            "round", "floor", "ceil", "random", "randomInt", "uuid", "now",
            "timestamp"} |-> "function"]

\* the utility set a host installs to extend utils with a counting function
TickUtils == MapSet(DefaultUtils, "tick", "function")

\* the context built by the constructor
InitialContext ==
    [widgets |-> EmptyMap, actions |-> EmptyMap, page |-> EmptyMap,
     utils |-> DefaultUtils, store |-> EmptyMap]

\* the expression texts the model evaluates
Exprs ==
    {"", "store.x", "widgets.input1.value", "utils.tick()", "window.x",
     "store.evals", "store.x +"}

\* the texts a host can bind to a widget property wrapped in its marker
MarkedExprs == {"{{ widgets.input1.value }}", "{{ store.x }}"}

\* expressions that name objects of the page's global scope
AmbientExprs ==
    {"localStorage.getItem('k')", "localStorage.setItem('k', 'x')",
     "localStorage.removeItem('k')"}

\* every text that reaches evaluate in the model
Texts == Exprs \cup MarkedExprs \cup AmbientExprs

\* sanitizeExpression's denylist, in the order it is scanned
forbidden ==
    <<"eval", "Function", "constructor", "prototype", "__proto__", "window",
      "document", "global", "process", "require", "import", "fetch",
      "XMLHttpRequest">>

\* for each text of Texts, the positions in the denylist of the keywords it
\* includes (the scan of lines 184-188, tabulated once)
forbiddenHits ==
    [e \in Texts |-> {i \in 1..Len(forbidden) : Includes(e, forbidden[i])}]

\* sanitizeExpression whose denylist lacks the window keyword
sanitizeNoWindow(expression) ==
    LET hits == {i \in forbiddenHits[expression] : forbidden[i] # "window"}
    IN  IF hits = {}
        THEN Return(expression)
        ELSE Throw("Forbidden keyword in expression: " \o forbidden[Min(hits)])

sanitizeExpression(expression) ==
    LET hits == forbiddenHits[expression]
    IN  IF hits = {}
        THEN Return(expression)
        ELSE Throw("Forbidden keyword in expression: " \o forbidden[Min(hits)])

\* the texts new Function(...) rejects with a SyntaxError: a binary operator
\* without its right operand, and `({{ ... }})`, an object literal whose
\* first property name is a brace
Malformed == {e \in Texts : e = "store.x +" \/ Includes(e, "{{")}

\* new Function(...) accepts the text
Parses(expression) == expression \notin Malformed

\* fn(widgets, actions, page, utils, store): what `return (expression)` does
\* in a function created by new Function, whose free names resolve in the
\* global scope of the page (amb is window.localStorage). out is the value
\* returned or the error raised, counter the utility's counter and storage
\* window.localStorage afterwards.
Body(expression, ctx, cnt, amb) ==
    CASE expression = "store.x" ->
            [out |-> Return(MapGet(ctx.store, "x")), counter |-> cnt, storage |-> amb]
      [] expression = "store.evals" ->
            [out |-> Return(MapGet(ctx.store, "evals")), counter |-> cnt, storage |-> amb]
      [] expression = "widgets.input1.value" ->
            IF "input1" \in DOMAIN ctx.widgets
            THEN [out |-> Return(ctx.widgets["input1"].value), counter |-> cnt,
                  storage |-> amb]
            ELSE [out |-> Throw("Cannot read properties of undefined (reading 'value')"),
                  counter |-> cnt, storage |-> amb]
      [] expression = "utils.tick()" ->
            IF "tick" \in DOMAIN ctx.utils
            THEN [out |-> Return(Num(cnt + 1)), counter |-> cnt + 1, storage |-> amb]
            ELSE [out |-> Throw("utils.tick is not a function"), counter |-> cnt,
                  storage |-> amb]
      [] expression = "window.x" ->
            [out |-> Return(Str("ambient")), counter |-> cnt, storage |-> amb]
      [] expression = "localStorage.getItem('k')" ->
            [out |-> Return(IF "k" \in DOMAIN amb THEN Str(amb["k"]) ELSE Null),
             counter |-> cnt, storage |-> amb]
      [] expression = "localStorage.setItem('k', 'x')" ->
            [out |-> Return(Undefined), counter |-> cnt,
             storage |-> MapSet(amb, "k", "x")]
      [] expression = "localStorage.removeItem('k')" ->
            [out |-> Return(Undefined), counter |-> cnt,
             storage |-> MapDelete(amb, "k")]
      [] OTHER ->
            [out |-> Throw("ReferenceError"), counter |-> cnt, storage |-> amb]

\* the engine's fields, with the state its sandboxed functions reach, as one
\* record threaded through a call
Engine == [context |-> context, cache |-> cache, counter |-> counter,
           storage |-> storage]

\* the catch block of evaluate (lines 139-145)
evaluateCatch(es, error, throwOnError, ran) ==
    [ret |-> IF throwOnError THEN error ELSE Return(Undefined),
     es |-> es, executed |-> ran, hit |-> FALSE]

\* lines 137-138 of evaluate, ran being the engine after the generated
\* function ran and result what it returned: the result is cached
cacheResult(ran, expression, result) ==
    [ret |-> Return(result),
     es |-> [ran EXCEPT !.cache =
               MapSet(@, expression, [value |-> result, deps |-> {}])],
     executed |-> TRUE, hit |-> FALSE]

\* lines 129-138 of evaluate, b being what the body of the generated
\* function did and ran the engine afterwards
evaluateRan(ran, expression, throwOnError, b) ==
    IF b.out.k = "throw" /\ throwOnError
    THEN \* the generated function rethrows
         evaluateCatch(ran, b.out, throwOnError, TRUE)
    ELSE \* the generated function returns undefined for a raised error
         cacheResult(ran, expression,
                     IF b.out.k = "throw" THEN Undefined ELSE b.out.value)

\* the call of the generated function (lines 129-135)
evaluateCall(es, expression, throwOnError, b) ==
    evaluateRan([es EXCEPT !.counter = b.counter, !.storage = b.storage],
                expression, throwOnError, b)

\* line 111 of evaluate, s being what sanitizeExpression returned or threw
evaluateSanitized(es, expression, throwOnError, s) ==
    IF s.k = "throw" THEN evaluateCatch(es, s, throwOnError, FALSE)
    ELSE IF ~Parses(expression)
    THEN evaluateCatch(es, Throw("SyntaxError"), throwOnError, FALSE)
    ELSE evaluateCall(es, expression, throwOnError,
                      Body(expression, es.context, es.counter, es.storage))

\* the try block of evaluate (lines 110-138): sanitize, compile, execute, cache
evaluateTry(es, expression, throwOnError) ==
    evaluateSanitized(es, expression, throwOnError, sanitizeExpression(expression))

\* evaluate without the cache lookup of lines 105-108
evaluateIgnoringCache(es, expression, throwOnError) ==
    IF expression = ""
    THEN [ret |-> Return(Str("")), es |-> es, executed |-> FALSE, hit |-> FALSE]
    ELSE evaluateTry(es, expression, throwOnError)

\* evaluate(expression, throwOnError) on engine state es: the value returned
\* or the error thrown, the engine state afterwards, whether the sandboxed
\* function was executed and whether the cache answered
evaluate(es, expression, throwOnError) ==
    IF expression = ""
    THEN [ret |-> Return(Str("")), es |-> es, executed |-> FALSE, hit |-> FALSE]
    ELSE IF expression \in DOMAIN es.cache
    THEN [ret |-> Return(es.cache[expression].value), es |-> es,
          executed |-> FALSE, hit |-> TRUE]
    ELSE evaluateTry(es, expression, throwOnError)

clearCache(es) == [es EXCEPT !.cache = EmptyMap]

\* updateContext that merges the namespaces and keeps the cache
updateContextKeepingCache(es, partial) ==
    [es EXCEPT !.context =
        [k \in Namespaces |-> IF k \in DOMAIN partial THEN partial[k] ELSE es.context[k]]]

\* updateContext that builds the context from the constructor's defaults
\* and the namespaces supplied
updateContextFromDefaults(es, partial) ==
    clearCache([es EXCEPT !.context =
        [k \in Namespaces |-> IF k \in DOMAIN partial THEN partial[k]
                                                      ELSE InitialContext[k]]])

updateContext(es, partial) ==
    clearCache([es EXCEPT !.context =
        [k \in Namespaces |-> IF k \in DOMAIN partial THEN partial[k] ELSE es.context[k]]])

\* the result of validateExpression, r being what its evaluate call did
validated(r) ==
    [ret |-> IF r.ret.k = "throw"
             THEN [valid |-> FALSE, error |-> r.ret.message]
             ELSE [valid |-> TRUE],
     es |-> r.es, evaluated |-> TRUE, inner |-> r]

\* validateExpression, s being what sanitizeExpression returned or threw
validateSanitized(es, expression, s) ==
    IF s.k = "throw"
    THEN [ret |-> [valid |-> FALSE, error |-> s.message], es |-> es,
          evaluated |-> FALSE]
    ELSE validated(evaluate(es, expression, TRUE))

\* validateExpression(expression): {valid, error?}, the engine afterwards,
\* and the inner evaluate call when the denylist check let it happen
validateExpression(es, expression) ==
    validateSanitized(es, expression, sanitizeExpression(expression))

----------------------------------------------------------------------------
(* Templates and dependencies: the regular expressions of the engine        *)

\* the character of text at position i
Char(text, i) == SubSeq(text, i, i)

\* the first position from i on where text has a closing brace, one past the
\* end when it has none
RECURSIVE NextBrace(_, _)
NextBrace(text, i) ==
    IF i > Len(text) \/ Char(text, i) = "}" THEN i ELSE NextBrace(text, i + 1)

\* the marker expression with ([^}]*): a marker may be empty
MatchAtAllowingEmpty(text, i) ==
    IF i + 1 <= Len(text) /\ SubSeq(text, i, i + 1) = "{{"
    THEN LET j == NextBrace(text, i + 2)
         IN  IF j + 1 <= Len(text) /\ SubSeq(text, j, j + 1) = "}}"
             THEN j + 1
             ELSE 0
    ELSE 0

\* /\{\{([^}]+)\}\}/ matched at position i of text: the position of the last
\* character of the match, 0 when there is no match at i
MatchAt(text, i) ==
    IF i + 1 <= Len(text) /\ SubSeq(text, i, i + 1) = "{{"
    THEN LET j == NextBrace(text, i + 2)
         IN  IF j > i + 2 /\ j + 1 <= Len(text) /\ SubSeq(text, j, j + 1) = "}}"
             THEN j + 1
             ELSE 0
    ELSE 0

\* the matches of the global regular expression from position i on, left to
\* right: where each one starts and ends, and its capture group
RECURSIVE Matches(_, _)
Matches(text, i) ==
    IF i > Len(text) THEN <<>>
    ELSE LET e == MatchAt(text, i)
         IN  IF e = 0
             THEN Matches(text, i + 1)
             ELSE <<[from |-> i, to |-> e, group |-> SubSeq(text, i + 2, e - 2)]>>
                    \o Matches(text, e + 1)

\* String.prototype.trim for texts padded with spaces
RECURSIVE Trim(_)
Trim(text) ==
    IF text = "" THEN text
    ELSE IF Char(text, 1) = " " THEN Trim(SubSeq(text, 2, Len(text)))
    ELSE IF Char(text, Len(text)) = " " THEN Trim(SubSeq(text, 1, Len(text) - 1))
    ELSE text

\* the templates the host renders
Templates ==
    {"", "Hello", "a } b {{}}", "{{ store.x }}",
     "Hi {{ widgets.input1.value }} and {{ store.x }}!",
     "{{ window.x }}-{{ store.x }}", "{{store.x}} {{ store.x }}{{ }}"}

\* the plain values the host binds to widget properties
PlainTexts == {"Hello", "Hi", "Yo"}

\* the texts the templated fields of the other actions hold (a path, a
\* message, a file name)
FieldTexts ==
    {"/home", "/users/{{ widgets.input1.value }}", "Saved {{ window.x }}",
     "{{ store.x }}.csv"}

\* the texts the url, the header values and the stringified body of the
\* http and graphql actions hold
RequestTexts ==
    {"/api/users", "/graphql", "/api/users/{{ widgets.input1.value }}",
     "Bearer {{ store.x }}", "{\"name\":\"{{ widgets.input1.value }}\"}"}

\* every text the marker expression is matched against in the model
MarkerTexts ==
    Templates \cup MarkedExprs \cup PlainTexts \cup FieldTexts \cup RequestTexts

\* for each text of MarkerTexts, its markers (the scan tabulated once)
markers == [t \in MarkerTexts |-> Matches(t, 1)]

hasExpression(text) == markers[text] # <<>>

\* extractExpressions that pushes match[1] as it stands
extractExpressionsUntrimmed(text) ==
    [i \in 1..Len(markers[text]) |-> markers[text][i].group]

\* extractExpressions(text): the trimmed capture groups
extractExpressions(text) ==
    [i \in 1..Len(markers[text]) |-> Trim(markers[text][i].group)]

\* String(result) of the replace callback (line 156): undefined and null
\* become the empty string
ToText(v) ==
    CASE v.t = "string" -> v.s
      [] v.t = "number" -> ToString(v.n)
      [] OTHER -> ""

\* template.replace(regex, callback) from the n-th match on (lines 154-157);
\* from is the position in template that follows the previous match. The
\* text built, or the error the callback let through, the engine afterwards
\* and the expressions passed to evaluate.
RECURSIVE replace(_, _, _, _, _)

\* the text of the n-th match on, m being the match, r what the callback's
\* evaluate did and rest what the later matches gave
replaceJoin(template, from, m, r, rest) ==
    [ret |-> IF rest.ret.k = "throw" THEN rest.ret
             ELSE Return(SubSeq(template, from, m.from - 1)
                           \o ToText(r.ret.value)
                           \o rest.ret.value),
     es |-> rest.es,
     sources |-> <<Trim(m.group)>> \o rest.sources]

\* the callback of the n-th match m (lines 155-156), r being what its
\* evaluate call did
replaceMatch(template, n, from, throwOnError, m, r) ==
    IF r.ret.k = "throw"
    THEN [ret |-> r.ret, es |-> r.es, sources |-> <<Trim(m.group)>>]
    ELSE replaceJoin(template, from, m, r,
                     replace(r.es, template, n + 1, m.to + 1, throwOnError))

replace(es, template, n, from, throwOnError) ==
    IF n > Len(markers[template])
    THEN [ret |-> Return(SubSeq(template, from, Len(template))), es |-> es,
          sources |-> <<>>]
    ELSE replaceMatch(template, n, from, throwOnError, markers[template][n],
                      evaluate(es, Trim(markers[template][n].group), throwOnError))

\* the catch block of evaluateTemplate (lines 158-164), r being what
\* template.replace did
templateCatch(template, throwOnError, r) ==
    IF r.ret.k = "throw" /\ ~throwOnError
    THEN [r EXCEPT !.ret = Return(template)]
    ELSE r

\* evaluateTemplate(template, throwOnError)
evaluateTemplate(es, template, throwOnError) ==
    IF template = ""
    THEN [ret |-> Return(""), es |-> es, sources |-> <<>>]
    ELSE templateCatch(template, throwOnError,
                       replace(es, template, 1, 1, throwOnError))

\* the characters \w matches
WordChars ==
    {"a", "b", "c", "d", "e", "f", "g", "h", "i", "j", "k", "l", "m", "n", "o",
     "p", "q", "r", "s", "t", "u", "v", "w", "x", "y", "z",
     "A", "B", "C", "D", "E", "F", "G", "H", "I", "J", "K", "L", "M", "N", "O",
     "P", "Q", "R", "S", "T", "U", "V", "W", "X", "Y", "Z",
     "0", "1", "2", "3", "4", "5", "6", "7", "8", "9", "_"}

\* the first position from i on where text has no word character
RECURSIVE WordEnd(_, _)
WordEnd(text, i) ==
    IF i > Len(text) \/ Char(text, i) \notin WordChars THEN i ELSE WordEnd(text, i + 1)

\* the matches of /prefix(\w+)/g from position i on: prefix and group joined,
\* with the position where the match starts
RECURSIVE References(_, _, _)
References(text, prefix, i) ==
    IF i + Len(prefix) > Len(text) THEN <<>>
    ELSE IF SubSeq(text, i, i + Len(prefix) - 1) = prefix
            /\ WordEnd(text, i + Len(prefix)) > i + Len(prefix)
    THEN LET e == WordEnd(text, i + Len(prefix))
         IN  <<[dep |-> SubSeq(text, i, e - 1), at |-> i]>> \o References(text, prefix, e)
    ELSE References(text, prefix, i + 1)

\* [...new Set(deps)]: every element once, at the place of its first occurrence
RECURSIVE Dedupe(_)
Dedupe(deps) ==
    IF deps = <<>> THEN deps
    ELSE LET init == Dedupe(SubSeq(deps, 1, Len(deps) - 1))
             last == deps[Len(deps)]
         IN  IF \E i \in 1..Len(init) : init[i] = last THEN init ELSE Append(init, last)

\* the expression texts whose dependencies the host asks for
DepTexts ==
    {"widgets.a.value + widgets.b.value", "page.a + widgets.b",
     "widgets.a + actions.run1.data + widgets.a", "store.x", ""}

\* getDependencies(expression): the widgets references, then the actions
\* references, then the page references, deduplicated
getDependencies(expression) ==
    LET all == References(expression, "widgets.", 1)
                 \o References(expression, "actions.", 1)
                 \o References(expression, "page.", 1)
    IN  Dedupe([i \in 1..Len(all) |-> all[i].dep])

\* for each text of DepTexts, what getDependencies returns (tabulated once)
dependencies == [e \in DepTexts |-> getDependencies(e)]

----------------------------------------------------------------------------
(* The host's calls on the engine                                           *)

\* the partial contexts the host passes to updateContext
Partials ==
    {[widgets |-> [input1 |-> [value |-> Str("Hi")]]],
     [widgets |-> EmptyMap],
     [store |-> [x |-> Num(1)]],
     [store |-> [x |-> Num(2)]],
     [utils |-> TickUtils],
     [utils |-> DefaultUtils, store |-> EmptyMap]}

InitEngine ==
    /\ context = InitialContext
    /\ cache = EmptyMap
    /\ counter = 0
    /\ elast = [op |-> "new", evaluated |-> FALSE]
    /\ seen = EmptyMap
    /\ seenU = EmptyMap
    /\ stale = EmptyMap

SetEngine(es) ==
    /\ context' = es.context
    /\ cache' = es.cache
    /\ counter' = es.counter
    /\ storage' = es.storage

\* expression passes the denylist, compiles, and is executed
Executes(expression) ==
    /\ expression # ""
    /\ forbiddenHits[expression] = {}
    /\ Parses(expression)

\* expression evaluates successfully against ctx
Succeeds(expression, ctx, cnt) ==
    Executes(expression) /\ Body(expression, ctx, cnt, storage).out.k = "return"

\* the execution of expression against ctx raises a runtime error
RuntimeFails(expression, ctx, cnt) ==
    Executes(expression) /\ Body(expression, ctx, cnt, storage).out.k = "throw"

\* the expressions that only read the context
PureExprs == {"store.x", "widgets.input1.value"}

\* what evaluate computes for a pure expression from ctx
FreshValue(expression, ctx) ==
    LET b == Body(expression, ctx, 0, EmptyMap)
    IN  IF b.out.k = "return" THEN b.out.value ELSE Undefined

\* the first outcome of a successfully evaluating expression is kept, later
\* ones are compared with it
Remember(m, expression, ret) ==
    IF expression \in DOMAIN m \/ ~Succeeds(expression, context, counter)
    THEN m
    ELSE MapSet(m, expression, ret)

\* the record of an evaluate call
EvaluateCall(op, expression, throwOnError, r) ==
    [op |-> op, evaluated |-> TRUE, expression |-> expression,
     throwOnError |-> throwOnError, ret |-> r.ret,
     executed |-> r.executed, hit |-> r.hit,
     first |-> expression \notin DOMAIN seen,
     firstU |-> expression \notin DOMAIN seenU,
     ambient |-> storage,
     context |-> context, cacheBefore |-> cache, cacheAfter |-> r.es.cache,
     touched |-> r.es.storage # storage,
     sealed |-> IF storage = EmptyMap THEN r.ret
                ELSE evaluate([Engine EXCEPT !.storage = EmptyMap], expression,
                              throwOnError).ret]

Evaluate(expression, throwOnError) ==
    LET r == evaluate(Engine, expression, throwOnError)
    IN  /\ r.es.counter <= MaxTicks
        /\ SetEngine(r.es)
        /\ elast' = EvaluateCall("evaluate", expression, throwOnError, r)
        /\ seen' = Remember(seen, expression, r.ret)
        /\ seenU' = Remember(seenU, expression, r.ret)
        /\ UNCHANGED stale

UpdateContext(partial) ==
    LET es == updateContext(Engine, partial)
    IN  /\ SetEngine(es)
        /\ elast' = [op |-> "updateContext", evaluated |-> FALSE, partial |-> partial,
                     before |-> context, after |-> es.context]
        /\ seen' = EmptyMap
        /\ seenU' = EmptyMap
        /\ stale' = [e \in {x \in DOMAIN cache \cap PureExprs :
                               cache[x].value # FreshValue(x, es.context)}
                        |-> cache[e].value]

ClearCache ==
    /\ SetEngine(clearCache(Engine))
    /\ elast' = [op |-> "clearCache", evaluated |-> FALSE]
    /\ seen' = EmptyMap
    /\ UNCHANGED <<seenU, stale>>

ValidateExpression(expression) ==
    LET r == validateExpression(Engine, expression)
    IN  /\ r.es.counter <= MaxTicks
        /\ SetEngine(r.es)
        /\ IF r.evaluated
           THEN /\ elast' = EvaluateCall("validateExpression", expression, TRUE, r.inner)
                                @@ [valid |-> r.ret.valid]
                /\ seen' = Remember(seen, expression, r.inner.ret)
                /\ seenU' = Remember(seenU, expression, r.inner.ret)
           ELSE /\ elast' = [op |-> "validateExpression", evaluated |-> FALSE,
                             expression |-> expression, valid |-> r.ret.valid]
                /\ UNCHANGED <<seen, seenU>>
        /\ UNCHANGED stale

\* the first outcomes of the expressions a template call evaluated
RECURSIVE RememberAll(_, _, _, _)
RememberAll(m, es, sources, throwOnError) ==
    IF sources = <<>> THEN m
    ELSE LET r == evaluate(es, sources[1], throwOnError)
         IN  RememberAll(IF sources[1] \in DOMAIN m
                            \/ ~(Executes(sources[1])
                                  /\ r.ret.k = "return" /\ r.executed
                                  /\ Body(sources[1], es.context, es.counter,
                                          es.storage).out.k = "return")
                         THEN m ELSE MapSet(m, sources[1], r.ret),
                         r.es, Tail(sources), throwOnError)

EvaluateTemplate(template, throwOnError) ==
    LET r == evaluateTemplate(Engine, template, throwOnError)
    IN  /\ r.es.counter <= MaxTicks
        /\ SetEngine(r.es)
        /\ elast' = [op |-> "evaluateTemplate", evaluated |-> FALSE,
                     template |-> template, throwOnError |-> throwOnError,
                     ret |-> r.ret, sources |-> r.sources,
                     cacheBefore |-> cache, contextBefore |-> context]
        /\ seen' = RememberAll(seen, Engine, r.sources, throwOnError)
        /\ seenU' = RememberAll(seenU, Engine, r.sources, throwOnError)
        /\ UNCHANGED stale

ExtractExpressions(text) ==
    /\ elast' = [op |-> "extractExpressions", evaluated |-> FALSE, text |-> text,
                 ret |-> extractExpressions(text)]
    /\ UNCHANGED <<context, cache, counter, storage, seen, seenU, stale>>

HasExpression(text) ==
    /\ elast' = [op |-> "hasExpression", evaluated |-> FALSE, text |-> text,
                 ret |-> hasExpression(text)]
    /\ UNCHANGED <<context, cache, counter, storage, seen, seenU, stale>>

GetDependencies(expression) ==
    /\ elast' = [op |-> "getDependencies", evaluated |-> FALSE,
                 expression |-> expression, ret |-> dependencies[expression]]
    /\ UNCHANGED <<context, cache, counter, storage, seen, seenU, stale>>

----------------------------------------------------------------------------
(* ActionManager                                                            *)

ActionIds == {"a", "b"}

\* the listener functions of the host; Failing throws when it is called
ListenerFns == {"Quiet", "Failing"}
ListenerThrows(l) == l = "Failing"
ListenerError == "listener failed"

\* the action definitions the host registers (without the id, which is the
\* key they are registered under)
HttpDef == [type |-> "http", config |-> [url |-> "/api/users"]]
\* an http action with templated url, headers (the sequence of the entries
\* Object.entries lists) and body (the text JSON.stringify gives for it)
HttpTemplatedDef ==
    [type |-> "http",
     config |-> [url |-> "/api/users/{{ widgets.input1.value }}",
                 headers |-> <<[key |-> "Authorization",
                                value |-> "Bearer {{ store.x }}"]>>,
                 body |-> "{\"name\":\"{{ widgets.input1.value }}\"}"]]
GraphQLDef == [type |-> "graphql", config |-> [url |-> "/graphql"]]
OpenModalDef == [type |-> "openModal", config |-> [modalId |-> "m1"]]
CloseModalDef == [type |-> "closeModal", config |-> [modalId |-> "m1"]]
StorageItemDef(op, key, value) ==
    [type |-> "localStorage", config |-> [operation |-> op, key |-> key, value |-> value]]
StorageDef(op) == StorageItemDef(op, "k", Str("v"))
RunJSDef(code) == [type |-> "runJS", config |-> [code |-> code]]
\* config.updates as the sequence of its entries, in the order Object.entries
\* lists them
UpdateWidgetDef(updates) ==
    [type |-> "updateWidget", config |-> [widgetId |-> "w1", updates |-> updates]]
UnknownDef == [type |-> "sendEmail", config |-> [to |-> "x"]]
NavigateDef(path) == [type |-> "navigate", config |-> [path |-> path]]
AlertDef(message) == [type |-> "showAlert", config |-> [message |-> message]]
ToastDef(message) == [type |-> "showToast", config |-> [message |-> message]]
ClipboardDef(text) == [type |-> "copyToClipboard", config |-> [text |-> text]]
DownloadDef(url, filename) ==
    [type |-> "downloadFile", config |-> [url |-> url, filename |-> filename]]

\* a field of config, or its default when config does not have it
ConfigOr(config, field, default) ==
    IF field \in DOMAIN config THEN config[field] ELSE default

AsyncTypes == {"http", "graphql"}

NotFound(actionId) == [success |-> FALSE, error |-> "Action not found: " \o actionId]
Failure(message) == [success |-> FALSE, error |-> message]

Resolved(result) == [k |-> "resolved", value |-> result]
Rejected(message) == [k |-> "rejected", message |-> message]

\* the numbers whose JSON texts the model reads
JSONNumbers == 0..9

\* JSON.stringify(v) of a JSON value: a string in quotes, a number in
\* digits, null, true or false
Stringify(v) ==
    CASE v.t = "string" -> "\"" \o v.s \o "\""
      [] v.t = "number" -> ToString(v.n)
      [] v.t = "boolean" -> IF v.b THEN "true" ELSE "false"
      [] OTHER -> "null"

\* JSON.parse accepts the text
ValidJSON(text) ==
    \/ text \in {"null", "true", "false"}
    \/ \E n \in JSONNumbers : text = ToString(n)
    \/ /\ Len(text) >= 2
       /\ SubSeq(text, 1, 1) = "\""
       /\ SubSeq(text, Len(text), Len(text)) = "\""

\* JSON.parse(text) of a text it accepts
Parse(text) ==
    CASE text = "null" -> Null
      [] text = "true" -> Bool(TRUE)
      [] text = "false" -> Bool(FALSE)
      [] \E n \in JSONNumbers : text = ToString(n) ->
            Num(CHOOSE n \in JSONNumbers : text = ToString(n))
      [] OTHER -> Str(SubSeq(text, 2, Len(text) - 1))

\* the data of a get that hands out whatever getItem returned
storedDataRaw(store, key) == Return(MapGet(store, key))

\* the data of a get that turns every falsy parsed value into null
storedDataTruthy(store, key) ==
    IF key \in DOMAIN store /\ store[key] \notin {"", "\"\"", "0", "false"}
    THEN IF ValidJSON(store[key])
         THEN Return(Parse(store[key]))
         ELSE Throw("Unexpected token in JSON")
    ELSE Return(Null)

\* lines 300-304: the stored text parsed, null when getItem returned null or
\* the empty string
storedData(store, key) ==
    IF key \in DOMAIN store /\ store[key] # ""
    THEN IF ValidJSON(store[key])
         THEN Return(Parse(store[key]))
         ELSE Throw("Unexpected token in JSON")
    ELSE Return(Null)

\* executeModalAction: the result and the call the modal callback received,
\* if it is set
executeModalAction(action, modalAction) ==
    [out |-> Return([success |-> TRUE,
                     data |-> [modalId |-> action.config.modalId,
                               action |-> modalAction]]),
     effects |-> IF modalCallback
                 THEN <<[to |-> "modalCallback", modalId |-> action.config.modalId,
                         action |-> modalAction]>>
                 ELSE <<>>]

\* executeLocalStorageAction: the result returned or the error thrown, and
\* the store afterwards
executeLocalStorageAction(action, store) ==
    LET operation == action.config.operation
        key == action.config.key
    IN  CASE operation = "set" ->
                [out |-> Return([success |-> TRUE,
                                 data |-> [key |-> key, value |-> action.config.value]]),
                 storage |-> MapSet(store, key, Stringify(action.config.value))]
          [] operation = "get" ->
                [out |-> IF storedData(store, key).k = "throw"
                         THEN storedData(store, key)
                         ELSE Return([success |-> TRUE,
                                      data |-> storedData(store, key).value]),
                 storage |-> store]
          [] operation = "remove" ->
                [out |-> Return([success |-> TRUE, data |-> [key |-> key]]),
                 storage |-> MapDelete(store, key)]
          [] operation = "clear" ->
                [out |-> Return([success |-> TRUE]), storage |-> EmptyMap]
          [] OTHER ->
                [out |-> Throw("Unknown localStorage operation: " \o operation),
                 storage |-> store]

\* the loop of executeUpdateWidgetAction over the entries from the n-th on
\* (lines 221-227): a string value in which hasExpression finds a marker is
\* passed whole to evaluate, every other value is copied
RECURSIVE evaluateUpdates(_, _, _)

\* evaluatedUpdates[key] = the value r gave, followed by the later entries
updatesJoin(entry, r, rest) ==
    [updates |-> <<[key |-> entry.key, value |-> r.ret.value]>> \o rest.updates,
     es |-> rest.es]

\* the n-th entry, r being its value after line 223
updatesEntry(updates, n, r) ==
    updatesJoin(updates[n], r, evaluateUpdates(updates, n + 1, r.es))

evaluateUpdates(updates, n, es) ==
    IF n > Len(updates)
    THEN [updates |-> <<>>, es |-> es]
    ELSE updatesEntry(updates, n,
            IF updates[n].value.t = "string" /\ hasExpression(updates[n].value.s)
            THEN evaluate(es, updates[n].value.s, FALSE)
            ELSE [ret |-> Return(updates[n].value), es |-> es])

\* lines 229-236 of executeUpdateWidgetAction, call being what the callback
\* receives and es the engine the loop left
updateWidgetWith(call, es) ==
    [out |-> Return([success |-> TRUE, data |-> call]),
     es |-> es,
     delivered |-> IF widgetUpdateCallback THEN <<call>> ELSE <<>>,
     effects |-> <<>>]

\* lines 229-236, x being what the loop over the updates gave
updateWidgetAfter(action, x) ==
    updateWidgetWith([widgetId |-> action.config.widgetId, updates |-> x.updates],
                     x.es)

\* executeUpdateWidgetAction: the result, the engine afterwards and the call
\* the widget-update callback received, if it is set
executeUpdateWidgetAction(action, es) ==
    updateWidgetAfter(action, evaluateUpdates(action.config.updates, 1, es))

\* lines 349-357 of executeRunJSAction, r being what evaluate(code, true) did
runJSResult(r) ==
    [out |-> IF r.ret.k = "throw"
             THEN Return(Failure(r.ret.message))
             ELSE Return([success |-> TRUE, data |-> r.ret.value]),
     es |-> r.es, delivered |-> <<>>, effects |-> <<>>]

\* executeRunJSAction: evaluate(code, true) with the error caught locally
executeRunJSAction(action, es) ==
    runJSResult(evaluate(es, action.config.code, TRUE))

\* the result of an executor that rendered one templated field (r is what
\* evaluateTemplate handed back) and made one call on the host
rendered(r, data, call) ==
    [out |-> Return([success |-> TRUE, data |-> data]), es |-> r.es,
     delivered |-> <<>>, effects |-> <<call>>]

\* executeNavigateAction, r being what evaluateTemplate(path) handed back
\* (line 241): the navigation callback or, if it is not set,
\* window.location.href
executeNavigateAction(r) ==
    rendered(r, [path |-> r.ret.value],
             IF navigationCallback
             THEN [to |-> "navigationCallback", path |-> r.ret.value]
             ELSE [to |-> "window.location.href", path |-> r.ret.value])

\* executeAlertAction, r being what evaluateTemplate(message) handed back
\* (line 270)
executeAlertAction(r) ==
    rendered(r, [message |-> r.ret.value], [to |-> "alert", message |-> r.ret.value])

\* executeToastAction, r being what evaluateTemplate(message) handed back
\* (line 282); type defaults to 'info' and duration to 3000
executeToastAction(action, r) ==
    rendered(r, [message |-> r.ret.value,
                 type |-> ConfigOr(action.config, "type", "info"),
                 duration |-> ConfigOr(action.config, "duration", 3000)],
             [to |-> "console.log", type |-> ConfigOr(action.config, "type", "info"),
              message |-> r.ret.value])

\* executeCopyToClipboardAction, r being what evaluateTemplate(text) handed
\* back (line 318)
executeCopyToClipboardAction(r) ==
    rendered(r, [text |-> r.ret.value],
             [to |-> "navigator.clipboard.writeText", text |-> r.ret.value])

\* lines 333-341 of executeDownloadFileAction, u and f being what the two
\* evaluateTemplate calls handed back
downloadWith(u, f) ==
    rendered(f, [url |-> u.ret.value, filename |-> f.ret.value],
             [to |-> "a.click", href |-> u.ret.value, download |-> f.ret.value])

\* executeDownloadFileAction, u being what evaluateTemplate(url) handed back
\* (line 330): the filename is rendered next (line 331), by the engine the
\* first rendering left
executeDownloadFileAction(action, u) ==
    downloadWith(u, evaluateTemplate(u.es, action.config.filename, FALSE))

\* the variants whose executor starts by rendering one field of config with
\* evaluateTemplate, and that field
TemplatedTypes == {"navigate", "showAlert", "showToast", "copyToClipboard", "downloadFile"}
firstTemplate(action) ==
    CASE action.type = "navigate" -> action.config.path
      [] action.type \in {"showAlert", "showToast"} -> action.config.message
      [] action.type = "copyToClipboard" -> action.config.text
      [] action.type = "downloadFile" -> action.config.url

\* the switch of executeAction (lines 97-124) for these variants, r being
\* the rendering of the first field
executeTemplated(action, r) ==
    CASE action.type = "navigate" -> executeNavigateAction(r)
      [] action.type = "showAlert" -> executeAlertAction(r)
      [] action.type = "showToast" -> executeToastAction(action, r)
      [] action.type = "copyToClipboard" -> executeCopyToClipboardAction(r)
      [] action.type = "downloadFile" -> executeDownloadFileAction(action, r)

\* what an executor that went through the expression engine leaves behind:
\* the store is the one its expressions left
usingEngine(x) ==
    [out |-> x.out, es |-> x.es, storage |-> x.es.storage, delivered |-> x.delivered,
     effects |-> x.effects]

\* what an executor that touches neither the engine nor the store leaves behind
aside(x, es, store) ==
    [out |-> x.out, es |-> es, storage |-> store, delivered |-> <<>>,
     effects |-> x.effects]

\* what the localStorage executor leaves behind
usingStore(x, es) ==
    [out |-> x.out, es |-> es, storage |-> x.storage, delivered |-> <<>>,
     effects |-> <<>>]

\* executeAction for the variants that finish without suspending: the
\* result returned or the error thrown, the engine and the store afterwards
executeAction(action, es, store) ==
    CASE action.type = "updateWidget" ->
            usingEngine(executeUpdateWidgetAction(action, es))
      [] action.type = "openModal" ->
            aside(executeModalAction(action, "open"), es, store)
      [] action.type = "closeModal" ->
            aside(executeModalAction(action, "close"), es, store)
      [] action.type = "localStorage" ->
            usingStore(executeLocalStorageAction(action, store), es)
      [] action.type = "runJS" ->
            usingEngine(executeRunJSAction(action, es))
      [] action.type \in TemplatedTypes ->
            usingEngine(executeTemplated(action,
                            evaluateTemplate(es, firstTemplate(action), FALSE)))
      [] OTHER ->
            [out |-> Throw("Unknown action type: " \o action.type),
             es |-> es, storage |-> store, delivered |-> <<>>, effects |-> <<>>]

\* the error of JSON.parse and of response.json() for a text that is not JSON
ParseError == Throw("Unexpected end of JSON input")

\* a Response: status line, content-type header and the text of the body
Response(status, statusText, contentType, text) ==
    [status |-> status, statusText |-> statusText, contentType |-> contentType,
     text |-> text]
NoResponse == [status |-> 0]

Resp200 == Response(200, "OK", "application/json", Stringify(Str("body")))
Resp500 ==
    Response(500, "Internal Server Error", "application/json", Stringify(Str("body")))
Resp404 == Response(404, "Not Found", "text/plain", "body")
\* a response whose body is empty although its header announces JSON
Resp204 == Response(204, "No Content", "application/json", "")

\* response.ok
Ok(response) == response.status >= 200 /\ response.status <= 299

\* lines 155-162: response.json() when the content type includes
\* application/json, response.text() otherwise
readBody(response) ==
    IF Includes(response.contentType, "application/json")
    THEN IF ValidJSON(response.text)
         THEN Return(Parse(response.text))
         ELSE ParseError
    ELSE Return(Str(response.text))

\* lines 155-175: the result of executeHttpAction once the body was read
httpResult(response) ==
    LET body == readBody(response) IN
    IF body.k = "throw" THEN body
    ELSE IF ~Ok(response)
    THEN Return([success |-> FALSE,
                 error |-> "HTTP " \o ToString(response.status) \o ": "
                              \o response.statusText,
                 data |-> body.value])
    ELSE Return([success |-> TRUE, data |-> body.value])

\* a request that is sent again after it failed, once
issueRequestTwice(run) == [run EXCEPT !.requests = @ + 2]

\* the one fetch call of executeHttpAction (line 143) and of
\* executeGraphQLAction (line 189)
issueRequest(run) == [run EXCEPT !.requests = @ + 1]

\* the loop of executeHttpAction over the header entries from the n-th on
\* (lines 133-135): every value goes through evaluateTemplate
RECURSIVE evaluateHeaders(_, _, _)

\* evaluatedHeaders[key] = the text r gave, followed by the later entries
headersJoin(header, r, rest) ==
    [headers |-> <<[key |-> header.key, value |-> r.ret.value]>> \o rest.headers,
     es |-> rest.es]

\* the n-th header, r being what evaluateTemplate made of its value
headersEntry(headers, n, r) ==
    headersJoin(headers[n], r, evaluateHeaders(headers, n + 1, r.es))

evaluateHeaders(headers, n, es) ==
    IF n > Len(headers)
    THEN [headers |-> <<>>, es |-> es]
    ELSE headersEntry(headers, n, evaluateTemplate(es, headers[n].value, FALSE))

\* the arguments of fetch (lines 143-151) and the engine the three
\* renderings left
fetchWith(u, h, b) ==
    [request |-> [url |-> u.ret.value, headers |-> h.headers, body |-> b.body],
     es |-> b.es]

\* a request whose url, header values and body are sent as they are
\* configured, markers included
httpRequestUnrendered(action, es) ==
    [request |-> [url |-> action.config.url,
                  headers |-> ConfigOr(action.config, "headers", <<>>),
                  body |-> IF "body" \in DOMAIN action.config
                           THEN Str(action.config.body) ELSE Undefined],
     es |-> es]

\* the body of the request, r being what evaluateTemplate handed back
renderedBody(r) == [body |-> Str(r.ret.value), es |-> r.es]

\* line 137: the body rendered if the action has one, undefined otherwise
withBody(action, u, h) ==
    fetchWith(u, h, IF "body" \in DOMAIN action.config
                    THEN renderedBody(evaluateTemplate(h.es, action.config.body, FALSE))
                    ELSE [body |-> Undefined, es |-> h.es])

\* lines 131-135: the headers rendered after the url
withHeaders(action, u) ==
    withBody(action, u,
             evaluateHeaders(ConfigOr(action.config, "headers", <<>>), 1, u.es))

\* lines 128-137 of executeHttpAction: the request the executor builds
\* before it calls fetch, and the engine afterwards
httpRequest(action, es) ==
    withHeaders(action, evaluateTemplate(es, action.config.url, FALSE))

\* what the network can answer to the fetch of an http or graphql action
HttpOk == httpResult(Resp200)
HttpError == httpResult(Resp500)
GraphQLOk == Return([success |-> TRUE, data |-> Str("data")])
GraphQLErrors ==
    Return([success |-> FALSE, error |-> "bad query", data |-> Str("data")])
NetworkError == Throw("Failed to fetch")
AbortError == Throw("The operation was aborted.")

\* notifyListeners(actionId, result): forEach calls the listeners in
\* insertion order and stops at the first one that throws
notifyListeners(ls, actionId, result) ==
    LET list == IF actionId \in DOMAIN ls THEN ls[actionId] ELSE <<>>
        bad == {i \in 1..Len(list) : ListenerThrows(list[i])}
        n == IF bad = {} THEN Len(list) ELSE Min(bad)
    IN  [called |-> [i \in 1..n |-> [listener |-> list[i], result |-> result]],
         threw |-> bad # {}]

\* results.set that keeps an existing entry
storeResultIfAbsent(res, actionId, result) ==
    IF actionId \in DOMAIN res THEN res ELSE MapSet(res, actionId, result)

\* this.results.set(actionId, result)
storeResult(res, actionId, result) == MapSet(res, actionId, result)

\* a catch block that stores and hands on the error it caught as it is
runCatchLeaking(res, ls, actionId, message, called) ==
    LET result == [name |-> "Error", message |-> message]
        res2 == storeResult(res, actionId, result)
        n == notifyListeners(ls, actionId, result)
    IN  [results |-> res2, called |-> called \o n.called,
         ret |-> IF n.threw THEN Rejected(ListenerError) ELSE Resolved(result)]

\* the catch block of run (lines 85-93)
runCatch(res, ls, actionId, message, called) ==
    LET result == Failure(message)
        res2 == storeResult(res, actionId, result)
        n == notifyListeners(ls, actionId, result)
    IN  [results |-> res2, called |-> called \o n.called,
         ret |-> IF n.threw THEN Rejected(ListenerError) ELSE Resolved(result)]

\* run after the executor settled with out (lines 81-93)
runSettle(res, ls, actionId, out) ==
    IF out.k = "throw"
    THEN runCatch(res, ls, actionId, out.message, <<>>)
    ELSE LET res1 == storeResult(res, actionId, out.value)
             n == notifyListeners(ls, actionId, out.value)
         IN  IF n.threw
             THEN runCatch(res1, ls, actionId, ListenerError, n.called)
             ELSE [results |-> res1, called |-> n.called, ret |-> Resolved(out.value)]

\* run of an id without a definition (lines 71-78)
runNotFound(res, ls, actionId) ==
    LET result == NotFound(actionId)
        n == notifyListeners(ls, actionId, result)
    IN  [results |-> res, called |-> n.called,
         ret |-> IF n.threw THEN Rejected(ListenerError) ELSE Resolved(result)]

getResult(actionId) == MapGet(results, actionId)

----------------------------------------------------------------------------
(* run and runActionChain as processes: a run call occupies a slot from    *)
(* the call until its promise settles                                       *)

RunIds == 1..MaxRuns

IdleRun == [pc |-> "idle"]
Pending == [k |-> "pending"]
InFlight == {"fetch", "body", "settle"}

FreeRuns == {r \in RunIds : runs[r].pc = "idle"}

\* the definitions the host registers in this model
RegDefs == {HttpDef, OpenModalDef, StorageDef("bogus"), UnknownDef}

\* the record of a run call that settled
RunRecord(actionId, owner, found, x, out, joined, joinedBy) ==
    [op |-> "run", id |-> actionId, owner |-> owner, found |-> found,
     ret |-> x.ret, called |-> x.called, out |-> out,
     joined |-> joined, joinedBy |-> joinedBy]

\* what the record of a run that went to an executor says about it
Executor(run) ==
    [type |-> run.type, action |-> run.action, requests |-> run.requests,
     response |-> run.response, elapsed |-> run.elapsed,
     request |-> run.request, context |-> run.context]

Step == [op |-> "step"]

\* `await this.executeAction(action)` (line 81) for an executor that finished
\* without suspending and handed back x: the run waits in slot r for its
\* continuation
awaitExecutor(st, rs, r, actionId, action, x) ==
    [runs |-> [rs EXCEPT ![r].type = action.type, ![r].action = action,
                         ![r].out = x.out],
     results |-> st.results, es |-> x.es, storage |-> x.storage,
     delivered |-> st.delivered \o x.delivered,
     effects |-> st.effects \o x.effects,
     unregistered |-> [st.unregistered EXCEPT ![actionId] = FALSE],
     event |-> [op |-> "runCall", id |-> actionId, action |-> action,
                out |-> x.out, before |-> st.storage,
                after |-> x.storage, context |-> st.es.context]]

\* `await this.executeAction(action)` (line 81) for an http or graphql
\* executor that built the request x.request and suspended at fetch: the run
\* waits in slot r for the response
awaitFetch(st, rs, r, actionId, action, x) ==
    [runs |-> [rs EXCEPT ![r] = issueRequest([rs[r] EXCEPT !.pc = "fetch",
                                                        !.type = action.type,
                                                        !.action = action,
                                                        !.request = x.request,
                                                        !.context = st.es.context])],
     results |-> st.results, es |-> x.es, storage |-> x.es.storage,
     delivered |-> st.delivered, effects |-> st.effects,
     unregistered |-> [st.unregistered EXCEPT ![actionId] = FALSE],
     event |-> [op |-> "runCall", id |-> actionId, action |-> action,
                out |-> Pending, before |-> st.storage,
                after |-> x.es.storage, context |-> st.es.context]]

\* the synchronous part of run(actionId) in slot r (lines 69-81), applied to
\* st = [runs, results, es, storage]: the state afterwards and the record
\* of the run when it has settled already
startRun(st, r, actionId, owner) ==
    LET others == {q \in RunIds : st.runs[q].pc \in InFlight /\ st.runs[q].id = actionId}
        marked == [q \in RunIds |->
                     IF q \in others THEN [st.runs[q] EXCEPT !.joinedBy = TRUE]
                     ELSE st.runs[q]]
        slot == [pc |-> "settle", id |-> actionId, owner |-> owner, type |-> "none",
                 action |-> Null, out |-> Pending, ret |-> Pending,
                 joined |-> others # {}, joinedBy |-> FALSE,
                 requests |-> 0, request |-> Null, context |-> Null,
                 response |-> NoResponse, elapsed |-> FALSE]
    IN  IF actionId \notin DOMAIN actions
        THEN LET x == runNotFound(st.results, listeners, actionId)
             IN  [runs |-> IF owner = "chain"
                           THEN [st.runs EXCEPT ![r] =
                                    [slot EXCEPT !.pc = "done", !.ret = x.ret,
                                                 !.joined = FALSE]]
                           ELSE st.runs,
                  results |-> x.results, es |-> st.es, storage |-> st.storage,
                  delivered |-> st.delivered, effects |-> st.effects,
                  unregistered |-> [st.unregistered EXCEPT ![actionId] = FALSE],
                  event |-> RunRecord(actionId, owner, FALSE, x, Pending, FALSE, FALSE)]
        ELSE LET action == actions[actionId] IN
             IF action.type \in AsyncTypes
             THEN awaitFetch(st, [marked EXCEPT ![r] = slot], r, actionId, action,
                             IF action.type = "http"
                             THEN httpRequest(action, st.es)
                             ELSE [request |-> Null, es |-> st.es])
             ELSE awaitExecutor(st, [marked EXCEPT ![r] = slot], r, actionId, action,
                                executeAction(action, st.es, st.storage))

Current == [runs |-> runs, results |-> results, es |-> Engine, storage |-> storage,
            delivered |-> delivered, effects |-> effects,
            unregistered |-> unregistered]

SetState(st) ==
    /\ runs' = st.runs
    /\ results' = st.results
    /\ SetEngine([st.es EXCEPT !.storage = st.storage])
    /\ delivered' = st.delivered
    /\ effects' = st.effects
    /\ unregistered' = st.unregistered
    /\ alast' = st.event

HostCall == /\ calls < MaxCalls
            /\ calls' = calls + 1

\* a registration that leaves a definition already registered in place
registerActionIfAbsent(as, actionId, def) ==
    IF actionId \in DOMAIN as THEN as ELSE MapSet(as, actionId, def)

\* this.actions.set(action.id, action)
registerAction(as, actionId, def) == MapSet(as, actionId, def)

RegisterAction(actionId, def) ==
    /\ HostCall
    /\ actions' = registerAction(actions, actionId, def)
    /\ alast' = [op |-> "registerAction", id |-> actionId, def |-> def,
                 previous |-> MapGet(actions, actionId)]
    /\ UNCHANGED <<engineVars, appVars, widgetUpdateCallback, navigationCallback, modalCallback,
                   unregistered, delivered, effects, listeners, results, storage, runs, chain, dropped>>

\* onWidgetUpdate(callback) with a callback that records its calls
OnWidgetUpdate ==
    /\ HostCall
    /\ widgetUpdateCallback' = TRUE
    /\ alast' = [op |-> "onWidgetUpdate"]
    /\ UNCHANGED <<engineVars, appVars, navigationCallback, modalCallback,
                   unregistered, delivered, effects, actions, listeners, results,
                   storage, runs, chain, dropped>>

\* onNavigation(callback) with a callback that records its calls
OnNavigation ==
    /\ HostCall
    /\ navigationCallback' = TRUE
    /\ alast' = [op |-> "onNavigation"]
    /\ UNCHANGED <<engineVars, appVars, widgetUpdateCallback, modalCallback,
                   unregistered, delivered, effects, actions, listeners, results,
                   storage, runs, chain, dropped>>

\* onModal(callback) with a callback that records its calls
OnModal ==
    /\ HostCall
    /\ modalCallback' = TRUE
    /\ alast' = [op |-> "onModal"]
    /\ UNCHANGED <<engineVars, appVars, widgetUpdateCallback, navigationCallback,
                   unregistered, delivered, effects, actions, listeners, results,
                   storage, runs, chain, dropped>>

\* unregisterAction that leaves the listeners of the id in place
unregisterKeepingListeners(ls, actionId) == ls

\* this.listeners.delete(actionId)
unregisterListeners(ls, actionId) == MapDelete(ls, actionId)

UnregisterAction(actionId) ==
    /\ HostCall
    /\ actions' = MapDelete(actions, actionId)
    /\ listeners' = unregisterListeners(listeners, actionId)
    /\ results' = MapDelete(results, actionId)
    /\ dropped' = [dropped EXCEPT ![actionId] =
                      @ \cup {MapGet(listeners, actionId)[i] :
                                i \in 1..Len(IF actionId \in DOMAIN listeners
                                             THEN listeners[actionId] ELSE <<>>)}]
    /\ unregistered' = [unregistered EXCEPT ![actionId] = TRUE]
    /\ alast' = [op |-> "unregisterAction", id |-> actionId]
    /\ UNCHANGED <<engineVars, appVars, widgetUpdateCallback, navigationCallback,
                   modalCallback, delivered, effects, storage, runs, chain>>

\* Set.add: a listener that is in the set already keeps its place
AddListener(actionId, listener) ==
    /\ HostCall
    /\ LET list == IF actionId \in DOMAIN listeners THEN listeners[actionId] ELSE <<>>
       IN  listeners' = MapSet(listeners, actionId,
                IF \E i \in 1..Len(list) : list[i] = listener
                THEN list ELSE Append(list, listener))
    /\ dropped' = [dropped EXCEPT ![actionId] = @ \ {listener}]
    /\ alast' = [op |-> "addListener", id |-> actionId]
    /\ UNCHANGED <<engineVars, appVars, widgetUpdateCallback, navigationCallback, modalCallback,
                   unregistered, delivered, effects, actions, results, storage, runs, chain>>

RemoveListener(actionId, listener) ==
    /\ HostCall
    /\ actionId \in DOMAIN listeners
    /\ listeners' = [listeners EXCEPT ![actionId] =
                        SelectSeq(@, LAMBDA l : l # listener)]
    /\ alast' = [op |-> "removeListener", id |-> actionId]
    /\ UNCHANGED <<engineVars, appVars, widgetUpdateCallback, navigationCallback, modalCallback,
                   unregistered, delivered, effects, actions, results, storage, runs, chain, dropped>>

\* the host calls run(actionId)
RunCall(actionId) ==
    /\ HostCall
    /\ FreeRuns # {}
    /\ SetState(startRun(Current, Min(FreeRuns), actionId, "host"))
    /\ UNCHANGED <<elast, seen, seenU, stale, appVars, actions, listeners, chain,
                   dropped, widgetUpdateCallback, navigationCallback, modalCallback>>

\* the server answers the request of slot r with its headers; the http
\* executor clears its timer (line 153) and reads the body
FetchResponds(r, response) ==
    /\ runs[r].pc = "fetch"
    /\ runs' = [runs EXCEPT ![r].pc = "body", ![r].response = response]
    /\ alast' = Step
    /\ UNCHANGED <<engineVars, appVars, widgetUpdateCallback, navigationCallback, modalCallback,
                   unregistered, delivered, effects, actions, listeners, results, storage, chain, dropped, calls>>

\* the request of slot r fails in the network
FetchFails(r) ==
    /\ runs[r].pc = "fetch"
    /\ runs' = [runs EXCEPT ![r].pc = "settle", ![r].out = NetworkError]
    /\ alast' = Step
    /\ UNCHANGED <<engineVars, appVars, widgetUpdateCallback, navigationCallback, modalCallback,
                   unregistered, delivered, effects, actions, listeners, results, storage, chain, dropped, calls>>

\* the timer of an http action fires while the request is pending (line 140)
FetchTimesOut(r) ==
    /\ runs[r].pc = "fetch"
    /\ runs[r].type = "http"
    /\ runs' = [runs EXCEPT ![r].pc = "settle", ![r].out = AbortError,
                             ![r].elapsed = TRUE]
    /\ alast' = Step
    /\ UNCHANGED <<engineVars, appVars, widgetUpdateCallback, navigationCallback, modalCallback,
                   unregistered, delivered, effects, actions, listeners, results, storage, chain, dropped, calls>>

\* the configured timeout of an http action elapses after the headers
\* arrived: the timer was cleared (line 153), nothing aborts the reading of
\* the body (lines 159, 161)
TimeoutElapses(r) ==
    /\ runs[r].pc = "body"
    /\ runs[r].type = "http"
    /\ ~runs[r].elapsed
    /\ runs' = [runs EXCEPT ![r].elapsed = TRUE]
    /\ alast' = Step
    /\ UNCHANGED <<engineVars, appVars, widgetUpdateCallback, navigationCallback, modalCallback,
                   unregistered, delivered, effects, actions, listeners, results, storage, chain, dropped, calls>>

\* the body of the response of slot r can be parsed: always as text, as JSON
\* when the text is JSON (executeGraphQLAction reads every body as JSON)
BodyParses(r) ==
    IF runs[r].type = "http"
    THEN readBody(runs[r].response).k = "return"
    ELSE ValidJSON(runs[r].response.text)

\* the body of the response arrives and the executor returns its result
BodyArrives(r) ==
    /\ runs[r].pc = "body"
    /\ BodyParses(r)
    /\ \E out \in IF runs[r].type = "http" THEN {httpResult(runs[r].response)}
                                           ELSE {GraphQLOk, GraphQLErrors} :
          runs' = [runs EXCEPT ![r].pc = "settle", ![r].out = out]
    /\ alast' = Step
    /\ UNCHANGED <<engineVars, appVars, widgetUpdateCallback, navigationCallback, modalCallback,
                   unregistered, delivered, effects, actions, listeners, results, storage, chain, dropped, calls>>

\* response.json() rejects
BodyFails(r) ==
    /\ runs[r].pc = "body"
    /\ ~BodyParses(r)
    /\ runs' = [runs EXCEPT ![r].pc = "settle", ![r].out = ParseError]
    /\ alast' = Step
    /\ UNCHANGED <<engineVars, appVars, widgetUpdateCallback, navigationCallback, modalCallback,
                   unregistered, delivered, effects, actions, listeners, results, storage, chain, dropped, calls>>

\* run resumes after `await this.executeAction` (lines 81-93)
RunSettle(r) ==
    /\ runs[r].pc = "settle"
    /\ LET x == runSettle(results, listeners, runs[r].id, runs[r].out)
       IN  /\ results' = x.results
           /\ runs' = [runs EXCEPT ![r] =
                          IF runs[r].owner = "chain"
                          THEN [runs[r] EXCEPT !.pc = "done", !.ret = x.ret]
                          ELSE IdleRun]
           /\ alast' = RunRecord(runs[r].id, runs[r].owner, TRUE, x, runs[r].out,
                                 runs[r].joined, runs[r].joinedBy) @@ Executor(runs[r])
    /\ UNCHANGED <<engineVars, appVars, widgetUpdateCallback, navigationCallback, modalCallback,
                   unregistered, delivered, effects, actions, listeners, storage, chain, dropped, calls>>

IdleChain == [pc |-> "idle"]

ChainLists == UNION {[1..n -> ActionIds] : n \in 0..MaxChain}

\* the loop never breaks
chainNeverStops(result) == FALSE

\* `if (!result.success) break` (line 375)
chainStops(result) == ~("success" \in DOMAIN result /\ result.success)

\* the loop takes the promise of run without waiting for it
chainNoAwait(r) == TRUE

\* `await this.run(...)` (line 372): the chain resumes when the run settled
chainAwait(r) == runs[r].pc = "done"

\* the host calls runActionChain(actionIds)
ChainCall(actionIds) ==
    /\ HostCall
    /\ chain.pc = "idle"
    /\ FreeRuns # {}
    /\ IF actionIds = <<>>
       THEN /\ alast' = [op |-> "runActionChain", ids |-> actionIds,
                         started |-> <<>>, from |-> <<>>, ret |-> Resolved(<<>>)]
            /\ UNCHANGED <<engineVars, delivered, effects, unregistered, results,
                           storage, runs, chain>>
       ELSE /\ chain' = [pc |-> "await", ids |-> actionIds, i |-> 1,
                         results |-> <<>>, slot |-> Min(FreeRuns),
                         started |-> <<actionIds[1]>>, from |-> <<>>]
            /\ SetState(startRun(Current, Min(FreeRuns), actionIds[1], "chain"))
            /\ UNCHANGED <<elast, seen, seenU, stale>>
    /\ UNCHANGED <<appVars, actions, listeners, dropped, widgetUpdateCallback,
                   navigationCallback, modalCallback>>

\* runActionChain resumes after `await this.run` (lines 372-380)
ChainStep ==
    /\ chain.pc = "await"
    /\ chainAwait(chain.slot)
    /\ LET ret == runs[chain.slot].ret
           freed == [runs EXCEPT ![chain.slot] =
                        IF runs[chain.slot].pc = "done" THEN IdleRun ELSE @]
           free == {r \in RunIds : freed[r].pc = "idle"}
           result == IF ret.k = "resolved" THEN ret.value ELSE ret
           all == Append(chain.results, result)
           from == Append(chain.from, runs[chain.slot].id)
       IN  IF ret.k = "rejected"
           THEN /\ chain' = IdleChain
                /\ runs' = freed
                /\ alast' = [op |-> "runActionChain", ids |-> chain.ids,
                             started |-> chain.started, from |-> chain.from,
                             ret |-> ret]
                /\ UNCHANGED <<engineVars, delivered, effects, unregistered, results,
                               storage>>
           ELSE IF chainStops(result) \/ chain.i = Len(chain.ids)
           THEN /\ chain' = IdleChain
                /\ runs' = freed
                /\ alast' = [op |-> "runActionChain", ids |-> chain.ids,
                             started |-> chain.started, from |-> from,
                             ret |-> Resolved(all)]
                /\ UNCHANGED <<engineVars, delivered, effects, unregistered, results,
                               storage>>
           ELSE /\ chain' = [chain EXCEPT !.i = @ + 1, !.results = all, !.from = from,
                                          !.slot = Min(free),
                                          !.started = Append(@, chain.ids[chain.i + 1])]
                /\ SetState(startRun([Current EXCEPT !.runs = freed], Min(free),
                                     chain.ids[chain.i + 1], "chain"))
                /\ UNCHANGED <<elast, seen, seenU, stale>>
    /\ UNCHANGED <<appVars, actions, listeners, dropped, calls,
                   widgetUpdateCallback, navigationCallback, modalCallback>>

----------------------------------------------------------------------------
(* HistoryManager                                                           *)

\* HistoryManager.maxHistorySize
maxHistorySize == 50

\* the entry the n-th addEntry call appends: the editor records an update of
\* a component, addEntry adds the id (crypto.randomUUID(), fresh per call)
NewEntry(n) == [id |-> n, action |-> "update", componentId |-> "c1"]

\* the fields of the HistoryManager as one record
History == [history |-> history, currentIndex |-> currentIndex]

\* history.slice(0, currentIndex + 1)
Slice(h) == SubSeq(h.history, 1, h.currentIndex + 1)

\* addEntry that never drops the oldest entry
addEntryKeepingAll(h, entry) ==
    [history |-> Append(Slice(h), entry), currentIndex |-> h.currentIndex + 1]

\* addEntry that appends to the whole array, redoable entries included
addEntryKeepingRedo(h, entry) ==
    IF Len(Append(h.history, entry)) > maxHistorySize
    THEN [history |-> Tail(Append(h.history, entry)), currentIndex |-> h.currentIndex]
    ELSE [history |-> Append(h.history, entry), currentIndex |-> h.currentIndex + 1]

\* addEntry that advances currentIndex also when it drops the oldest entry
addEntryAlwaysAdvancing(h, entry) ==
    IF Len(Append(Slice(h), entry)) > maxHistorySize
    THEN [history |-> Tail(Append(Slice(h), entry)),
          currentIndex |-> h.currentIndex + 1]
    ELSE [history |-> Append(Slice(h), entry), currentIndex |-> h.currentIndex + 1]

\* addEntry(entry), the entry already carrying its id (lines 162-178)
addEntry(h, entry) ==
    IF Len(Append(Slice(h), entry)) > maxHistorySize
    THEN [history |-> Tail(Append(Slice(h), entry)), currentIndex |-> h.currentIndex]
    ELSE [history |-> Append(Slice(h), entry), currentIndex |-> h.currentIndex + 1]

canUndo(h) == h.currentIndex >= 0

canRedo(h) == h.currentIndex < Len(h.history) - 1

\* undo(): the entry returned (null when there is none) and the fields
\* afterwards; the array is indexed from zero in the source
undo(h) ==
    IF ~canUndo(h)
    THEN [ret |-> Null, h |-> h]
    ELSE [ret |-> h.history[h.currentIndex + 1],
          h |-> [h EXCEPT !.currentIndex = @ - 1]]

\* redo that reads the entry before it advances currentIndex
redoBeforeAdvancing(h) ==
    IF ~canRedo(h)
    THEN [ret |-> Null, h |-> h]
    ELSE [ret |-> IF h.currentIndex >= 0 THEN h.history[h.currentIndex + 1]
                                         ELSE Undefined,
          h |-> [h EXCEPT !.currentIndex = @ + 1]]

\* redo()
redo(h) ==
    IF ~canRedo(h)
    THEN [ret |-> Null, h |-> h]
    ELSE [ret |-> h.history[h.currentIndex + 2],
          h |-> [h EXCEPT !.currentIndex = @ + 1]]

\* clear()
clear(h) == [history |-> <<>>, currentIndex |-> -1]

SetHistory(h) ==
    /\ history' = h.history
    /\ currentIndex' = h.currentIndex

AddEntry ==
    /\ entries < MaxEntries
    /\ entries' = entries + 1
    /\ SetHistory(addEntry(History, NewEntry(entries + 1)))
    /\ hlast' = [op |-> "addEntry", entry |-> NewEntry(entries + 1), before |-> History]
    /\ UNCHANGED <<undos, clears>>

Undo ==
    /\ undos < MaxUndos
    /\ undos' = undos + 1
    /\ SetHistory(undo(History).h)
    /\ hlast' = [op |-> "undo", ret |-> undo(History).ret, before |-> History]
    /\ UNCHANGED <<entries, clears>>

Redo ==
    /\ SetHistory(redo(History).h)
    /\ hlast' = [op |-> "redo", ret |-> redo(History).ret, before |-> History]
    /\ UNCHANGED <<entries, undos, clears>>

Clear ==
    /\ clears < MaxClears
    /\ clears' = clears + 1
    /\ SetHistory(clear(History))
    /\ hlast' = [op |-> "clear"]
    /\ UNCHANGED <<entries, undos>>

InitHistory ==
    /\ history = <<>>
    /\ currentIndex = -1
    /\ hlast = [op |-> "new"]
    /\ entries = 0
    /\ undos = 0
    /\ clears = 0

----------------------------------------------------------------------------
(* PersistenceService: saveProject, updateProject, savePage                 *)

\* the pages the editor hands over, by name
PageLists == {<<>>, <<"home">>, <<"home", "about">>}

\* how the backend answers a request: the row is written ("ok"), the client
\* resolves with an error object ("error"), it resolves with neither row nor
\* error ("empty", maybeSingle), or the awaited call rejects ("throws")
Outcomes == {"ok", "error", "empty", "throws"}

BackendError == "permission denied"
BackendDown == "Failed to fetch"

IdleSave == [pc |-> "idle"]

\* a call that just started: nothing persisted yet
NewSave(op, pages, pc) ==
    [pc |-> pc, op |-> op, pages |-> pages, n |-> 1, pageIds |-> <<>>,
     row |-> FALSE, saved |-> {}, listed |-> FALSE, refused |-> {}]

\* the call returns ret: its record
SaveRecord(sv, ret) ==
    [op |-> sv.op, pages |-> sv.pages, ret |-> Resolved(ret), row |-> sv.row,
     saved |-> sv.saved, listed |-> sv.listed, refused |-> sv.refused]

\* `return ...` of saveProject / updateProject
Finish(sv, ret) ==
    /\ save' = IdleSave
    /\ slast' = SaveRecord(sv, ret)

\* the catch block of saveProject (lines 77-82) and updateProject (117-122)
saveCatch(sv) == Finish(sv, [success |-> FALSE, error |-> BackendDown])

\* the loop over the pages goes on with the next page, or leaves the loop for
\* the step after
nextPage(sv, after) ==
    IF sv.n + 1 > Len(sv.pages)
    THEN [sv EXCEPT !.n = @ + 1, !.pc = after]
    ELSE [sv EXCEPT !.n = @ + 1]

\* the project row was written: the loop over the pages starts, or is
\* skipped when there is no page
afterRow(sv, loop, after) ==
    [sv EXCEPT !.row = TRUE, !.pc = IF sv.pages = <<>> THEN after ELSE loop]

\* the page the loop is at was written
pageSaved(sv) ==
    [sv EXCEPT !.saved = @ \cup {sv.pages[sv.n]},
               !.pageIds = Append(@, sv.pages[sv.n])]

\* the backend did not write the page the loop is at
pageRefused(sv) == [sv EXCEPT !.refused = @ \cup {sv.pages[sv.n]}]

\* saveProject(name, description, pages, settings) up to its first await
\* (lines 25-38)
SaveProject(pages) ==
    /\ save.pc = "idle"
    /\ saves < MaxSaves
    /\ saves' = saves + 1
    /\ save' = NewSave("saveProject", pages, "insertProject")
    /\ UNCHANGED <<db, slast>>

\* the insert into projects answers (lines 38-42)
InsertProjectAnswers(o) ==
    /\ save.pc = "insertProject"
    /\ CASE o = "ok" ->
              /\ db' = [db EXCEPT !.projects = @ + 1]
              /\ save' = afterRow(save, "insertPage", "updateList")
              /\ UNCHANGED slast
         [] o = "error" ->
              /\ Finish(save, [success |-> FALSE, error |-> BackendError])
              /\ UNCHANGED db
         [] o = "empty" ->
              /\ Finish(save, [success |-> FALSE, error |-> "Failed to create project"])
              /\ UNCHANGED db
         [] o = "throws" -> saveCatch(save) /\ UNCHANGED db
    /\ UNCHANGED saves

\* the insert of the page the loop is at answers (lines 46-68): a page that
\* was not saved is logged and skipped
InsertPageAnswers(o) ==
    /\ save.pc = "insertPage"
    /\ CASE o = "ok" ->
              /\ db' = [db EXCEPT !.pages = @ \cup {save.pages[save.n]}]
              /\ save' = nextPage(pageSaved(save), "updateList")
              /\ UNCHANGED slast
         [] o \in {"error", "empty"} ->
              /\ save' = nextPage(pageRefused(save), "updateList")
              /\ UNCHANGED <<db, slast>>
         [] o = "throws" -> saveCatch(save) /\ UNCHANGED db
    /\ UNCHANGED saves

\* the update of the project's page list answers (lines 70-75): what the
\* client resolves with is not looked at
UpdateListAnswers(o) ==
    /\ save.pc = "updateList"
    /\ o # "empty"
    /\ CASE o = "ok" ->
              /\ db' = [db EXCEPT !.lists = @ \cup {save.pageIds}]
              /\ Finish([save EXCEPT !.listed = TRUE], [success |-> TRUE, projectId |-> "p1"])
         [] o = "error" ->
              /\ Finish(save, [success |-> TRUE, projectId |-> "p1"])
              /\ UNCHANGED db
         [] o = "throws" -> saveCatch(save) /\ UNCHANGED db
    /\ UNCHANGED saves

\* updateProject(projectId, name, description, pages, settings) up to its
\* first await (lines 92-103)
UpdateProject(pages) ==
    /\ save.pc = "idle"
    /\ saves < MaxSaves
    /\ saves' = saves + 1
    /\ save' = NewSave("updateProject", pages, "updateRow")
    /\ UNCHANGED <<db, slast>>

\* the update of the project row answers (lines 100-115)
UpdateRowAnswers(o) ==
    /\ save.pc = "updateRow"
    /\ o # "empty"
    /\ CASE o = "ok" ->
              IF save.pages = <<>>
              THEN Finish([save EXCEPT !.row = TRUE], [success |-> TRUE])
              ELSE /\ save' = afterRow(save, "upsertPage", "upsertPage")
                   /\ UNCHANGED slast
         [] o = "error" -> Finish(save, [success |-> FALSE, error |-> BackendError])
         [] o = "throws" -> saveCatch(save)
    /\ UNCHANGED <<db, saves>>

\* updateProject after savePage returned for the page the loop is at (line
\* 111: what savePage resolved to is not looked at), sv being the call with
\* that page accounted for
afterSavePage(sv) ==
    IF sv.n + 1 > Len(sv.pages)
    THEN Finish(sv, [success |-> TRUE])
    ELSE /\ save' = [sv EXCEPT !.n = @ + 1]
         /\ UNCHANGED slast

\* the upsert of savePage answers (lines 214-240): savePage resolves to
\* {success: true}, or to {success: false, error} when the client resolved
\* with an error or the call rejected
UpsertPageAnswers(o) ==
    /\ save.pc = "upsertPage"
    /\ o # "empty"
    /\ IF o = "ok"
       THEN /\ db' = [db EXCEPT !.pages = @ \cup {save.pages[save.n]}]
            /\ afterSavePage(pageSaved(save))
       ELSE /\ afterSavePage(pageRefused(save))
            /\ UNCHANGED db
    /\ UNCHANGED saves

InitService ==
    /\ db = [projects |-> 0, pages |-> {}, lists |-> {}]
    /\ save = IdleSave
    /\ slast = [op |-> "new"]
    /\ saves = 0

----------------------------------------------------------------------------
(* RuntimeRenderer                                                          *)

\* the components of the page: an input whose label is bound to its value
Components ==
    <<[id |-> "input1", type |-> "input",
       props |-> <<[key |-> "value", value |-> Str("Hi")],
                   [key |-> "label", value |-> Str("{{ widgets.input1.value }}")],
                   [key |-> "title", value |-> Str("Hello")],
                   [key |-> "count", value |-> Num(3)]>>]>>

Page == [name |-> "Home", route |-> "/home"]

\* an object with the entries of one and then those of two ({...one, ...two})
RECURSIVE spread(_, _, _)
spread(one, two, n) ==
    IF n > Len(two) THEN one
    ELSE spread(MapSet(one, two[n].key, two[n].value), two, n + 1)

\* the entry of initialState for a component (lines 20-25)
initialWidget(component) ==
    MapSet(spread(MapSet(MapSet(EmptyMap, "id", Str(component.id)),
                         "type", Str(component.type)),
                  component.props, 1),
           "visible",
           Bool(MapGet(spread(EmptyMap, component.props, 1), "visible") # Bool(FALSE)))

\* initialState of the first effect (lines 17-26)
RECURSIVE initialState(_, _)
initialState(components, n) ==
    IF n > Len(components) THEN EmptyMap
    ELSE MapSet(initialState(components, n + 1), components[n].id,
                initialWidget(components[n]))

\* the updater the widget-update callback hands to setWidgetsState (lines
\* 46-52) applied to prev
mergeUpdate(prev, call) ==
    MapSet(prev, call.widgetId,
           spread(IF call.widgetId \in DOMAIN prev THEN prev[call.widgetId] ELSE EmptyMap,
                  call.updates, 1))

\* the queued updaters from the n-th callback on, applied in order
RECURSIVE mergeUpdates(_, _, _)
mergeUpdates(prev, received, n) ==
    IF n > Len(received) THEN prev
    ELSE mergeUpdates(mergeUpdate(prev, received[n]), received, n + 1)

\* the context the second effect builds (lines 32-41)
effectContext(ws, ctx) ==
    [widgets |-> ws, actions |-> EmptyMap, page |-> Page, utils |-> ctx.utils,
     store |-> EmptyMap]

\* the loop of evaluateComponentProps over the props from the n-th on (lines
\* 60-68): a string in which hasExpression finds a marker is passed whole to
\* evaluate, another string to evaluateTemplate, every other value is copied
RECURSIVE evaluateProps(_, _, _)

\* evaluatedProps[key] = the value r gave, followed by the later props
propsJoin(prop, value, rest) ==
    [props |-> <<[key |-> prop.key, value |-> value]>> \o rest.props, es |-> rest.es]

\* the n-th prop, r being what evaluate or evaluateTemplate did for it
propsEntry(props, n, value, es) ==
    propsJoin(props[n], value, evaluateProps(props, n + 1, es))

\* line 64, r being what evaluateTemplate did
propsTemplate(props, n, r) == propsEntry(props, n, Str(r.ret.value), r.es)

\* line 62, r being what evaluate did
propsExpression(props, n, r) == propsEntry(props, n, r.ret.value, r.es)

evaluateProps(props, n, es) ==
    IF n > Len(props)
    THEN [props |-> <<>>, es |-> es]
    ELSE IF props[n].value.t = "string" /\ hasExpression(props[n].value.s)
    THEN propsExpression(props, n, evaluate(es, props[n].value.s, FALSE))
    ELSE IF props[n].value.t = "string"
    THEN propsTemplate(props, n, evaluateTemplate(es, props[n].value.s, FALSE))
    ELSE propsEntry(props, n, props[n].value, es)

\* components.map(evaluateComponentProps) of the render (lines 78-79)
RECURSIVE evaluateComponents(_, _, _)

componentsJoin(component, r, rest) ==
    [components |-> <<[component EXCEPT !.props = r.props]>> \o rest.components,
     es |-> rest.es]

componentsEntry(components, n, r) ==
    componentsJoin(components[n], r, evaluateComponents(components, n + 1, r.es))

evaluateComponents(components, n, es) ==
    IF n > Len(components)
    THEN [components |-> <<>>, es |-> es]
    ELSE componentsEntry(components, n, evaluateProps(components[n].props, 1, es))

\* widgetsState of the next render: the queued setWidgetsState calls applied
\* in the order they were made
nextWidgetsState ==
    IF ~mounted THEN EmptyMap
    ELSE mergeUpdates(IF queuedInitial THEN initialState(Components, 1) ELSE widgetsState,
                      delivered, applied + 1)

\* the render, ws being its widgetsState and r what evaluating the props of
\* the components did
RenderWith(ws, r) ==
    /\ r.es.counter <= MaxTicks
    /\ SetEngine(r.es)
    /\ widgetsState' = ws
    /\ rlast' = [op |-> "render", widgetsState |-> ws, context |-> context,
                 components |-> r.components, first |-> ~mounted,
                 updates |-> Len(delivered) - applied]
    /\ effectsDue' = IF mounted THEN "update" ELSE "mount"

\* React renders RuntimeRenderer (lines 12-14, 76-98): on mount, and after a
\* setWidgetsState or setRefreshKey call
RenderPage ==
    /\ renders < MaxRenders
    /\ effectsDue = "none"
    /\ ~mounted \/ queuedInitial \/ applied < Len(delivered)
    /\ renders' = renders + 1
    /\ RenderWith(nextWidgetsState, evaluateComponents(Components, 1, Engine))
    /\ mounted' = TRUE
    /\ queuedInitial' = FALSE
    /\ applied' = Len(delivered)
    /\ UNCHANGED <<elast, seen, seenU, stale, managerVars, historyVars, serviceVars>>

\* the effects of the last render run (lines 16-29 after the first render,
\* lines 31-55 after every render in which widgetsState changed)
RunEffects ==
    /\ effectsDue # "none"
    /\ effectsDue' = "none"
    /\ queuedInitial' = (queuedInitial \/ effectsDue = "mount")
    /\ SetEngine(updateContext(Engine, effectContext(widgetsState, context)))
    /\ widgetUpdateCallback' = TRUE
    /\ UNCHANGED <<elast, seen, seenU, stale, historyVars, serviceVars,
                   widgetsState, mounted, applied, rlast, renders,
                   actions, listeners, results, runs, chain, alast, dropped, calls,
                   navigationCallback, modalCallback, delivered, effects, unregistered>>

InitRenderer ==
    /\ widgetsState = EmptyMap
    /\ mounted = FALSE
    /\ effectsDue = "none"
    /\ queuedInitial = FALSE
    /\ applied = 0
    /\ rlast = [op |-> "new"]
    /\ renders = 0

----------------------------------------------------------------------------
(* Initial state and specifications                                         *)

InitManager ==
    /\ actions = EmptyMap
    /\ listeners = EmptyMap
    /\ results = EmptyMap
    /\ storage = EmptyMap
    /\ runs = [r \in RunIds |-> IdleRun]
    /\ chain = IdleChain
    /\ alast = [op |-> "new"]
    /\ dropped = [i \in ActionIds |-> {}]
    /\ calls = 0
    /\ widgetUpdateCallback = FALSE
    /\ navigationCallback = FALSE
    /\ modalCallback = FALSE
    /\ delivered = <<>>
    /\ effects = <<>>
    /\ unregistered = [i \in ActionIds |-> FALSE]

Init == InitEngine /\ InitManager /\ InitHistory /\ InitService /\ InitRenderer

NextEngine ==
    \/ \E e \in Exprs, t \in BOOLEAN : Evaluate(e, t) /\ UNCHANGED <<managerVars, appVars>>
    \/ \E p \in Partials : UpdateContext(p) /\ UNCHANGED <<managerVars, appVars>>
    \/ ClearCache /\ UNCHANGED <<managerVars, appVars>>
    \/ \E e \in Exprs : ValidateExpression(e) /\ UNCHANGED <<managerVars, appVars>>

SpecEngine == Init /\ [][NextEngine]_vars

Next ==
    \/ \E i \in ActionIds, d \in RegDefs : RegisterAction(i, d)
    \/ \E i \in ActionIds : UnregisterAction(i)
    \/ \E i \in ActionIds, l \in ListenerFns : AddListener(i, l)
    \/ \E i \in ActionIds, l \in ListenerFns : RemoveListener(i, l)
    \/ \E i \in ActionIds : RunCall(i)
    \/ \E r \in RunIds, p \in {Resp200, Resp500, Resp204} : FetchResponds(r, p)
    \/ \E r \in RunIds : FetchFails(r)
    \/ \E r \in RunIds : FetchTimesOut(r)
    \/ \E r \in RunIds : BodyArrives(r)
    \/ \E r \in RunIds : BodyFails(r)
    \/ \E r \in RunIds : RunSettle(r)
    \/ \E ids \in ChainLists : ChainCall(ids)
    \/ ChainStep

Spec == Init /\ [][Next]_vars

\* the engine rendering templates and listing dependencies
TemplatePartials ==
    {[widgets |-> [input1 |-> [value |-> Str("Hi")]]],
     [widgets |-> EmptyMap],
     [store |-> [x |-> Num(1)]]}

NextTemplate ==
    \/ \E t \in Templates, b \in BOOLEAN : EvaluateTemplate(t, b) /\ UNCHANGED <<managerVars, appVars>>
    \/ \E p \in TemplatePartials : UpdateContext(p) /\ UNCHANGED <<managerVars, appVars>>
    \/ \E e \in DepTexts : GetDependencies(e) /\ UNCHANGED <<managerVars, appVars>>
    \/ \E t \in Templates : ExtractExpressions(t) /\ UNCHANGED <<managerVars, appVars>>
    \/ \E t \in Templates : HasExpression(t) /\ UNCHANGED <<managerVars, appVars>>

SpecTemplate == Init /\ [][NextTemplate]_vars

\* the undo history of the editor
NextHistory ==
    \/ AddEntry /\ UNCHANGED <<engineVars, storage, managerVars, serviceVars, rendererVars>>
    \/ Undo /\ UNCHANGED <<engineVars, storage, managerVars, serviceVars, rendererVars>>
    \/ Redo /\ UNCHANGED <<engineVars, storage, managerVars, serviceVars, rendererVars>>
    \/ Clear /\ UNCHANGED <<engineVars, storage, managerVars, serviceVars, rendererVars>>

SpecHistory == Init /\ [][NextHistory]_vars

\* the editor saving and updating projects against a backend that can fail
NextService ==
    \/ \E pages \in PageLists : SaveProject(pages) /\ UNCHANGED <<engineVars, storage, managerVars, historyVars, rendererVars>>
    \/ \E pages \in PageLists : UpdateProject(pages) /\ UNCHANGED <<engineVars, storage, managerVars, historyVars, rendererVars>>
    \/ \E o \in Outcomes : InsertProjectAnswers(o) /\ UNCHANGED <<engineVars, storage, managerVars, historyVars, rendererVars>>
    \/ \E o \in Outcomes : InsertPageAnswers(o) /\ UNCHANGED <<engineVars, storage, managerVars, historyVars, rendererVars>>
    \/ \E o \in Outcomes : UpdateListAnswers(o) /\ UNCHANGED <<engineVars, storage, managerVars, historyVars, rendererVars>>
    \/ \E o \in Outcomes : UpdateRowAnswers(o) /\ UNCHANGED <<engineVars, storage, managerVars, historyVars, rendererVars>>
    \/ \E o \in Outcomes : UpsertPageAnswers(o) /\ UNCHANGED <<engineVars, storage, managerVars, historyVars, rendererVars>>

SpecService == Init /\ [][NextService]_vars

\* the manager running http and graphql actions against a network
NetDefs == {HttpDef, GraphQLDef}
NetResponses == {Resp200, Resp404, Resp500, Resp204}

NextNet ==
    \/ \E i \in ActionIds, d \in NetDefs : RegisterAction(i, d)
    \/ \E i \in ActionIds, l \in ListenerFns : AddListener(i, l)
    \/ \E i \in ActionIds : RunCall(i)
    \/ \E r \in RunIds, p \in NetResponses : FetchResponds(r, p)
    \/ \E r \in RunIds : FetchFails(r)
    \/ \E r \in RunIds : FetchTimesOut(r)
    \/ \E r \in RunIds : TimeoutElapses(r)
    \/ \E r \in RunIds : BodyArrives(r)
    \/ \E r \in RunIds : BodyFails(r)
    \/ \E r \in RunIds : RunSettle(r)

SpecNet == Init /\ [][NextNet]_vars

\* the manager running updateWidget and runJS actions while the host
\* updates the context and evaluates expressions
LabelUpdates ==
    <<[key |-> "label", value |-> Str("{{ widgets.input1.value }}")],
      [key |-> "title", value |-> Str("Hello")],
      [key |-> "count", value |-> Num(3)]>>

WidgetDefs ==
    {UpdateWidgetDef(LabelUpdates), RunJSDef("widgets.input1.value"),
     RunJSDef("window.x")}

WidgetPartials ==
    {[widgets |-> [input1 |-> [value |-> Str("Hi")]]], [widgets |-> EmptyMap]}

NextWidgets ==
    \/ \E p \in WidgetPartials : UpdateContext(p) /\ UNCHANGED <<managerVars, appVars>>
    \/ \E t \in BOOLEAN : Evaluate("widgets.input1.value", t) /\ UNCHANGED <<managerVars, appVars>>
    \/ \E i \in ActionIds, d \in WidgetDefs : RegisterAction(i, d)
    \/ OnWidgetUpdate
    \/ \E i \in ActionIds : RunCall(i)
    \/ \E r \in RunIds : RunSettle(r)

SpecWidgets == Init /\ [][NextWidgets]_vars

\* the manager running localStorage actions while expressions the host
\* evaluates reach window.localStorage as well
StorageDefs ==
    {StorageDef("get"), StorageDef("set"), StorageDef("remove"), StorageDef("clear")}

NextStorage ==
    \/ \E e \in AmbientExprs : Evaluate(e, FALSE) /\ UNCHANGED <<managerVars, appVars>>
    \/ ClearCache /\ UNCHANGED <<managerVars, appVars>>
    \/ \E d \in StorageDefs : RegisterAction("a", d)
    \/ RunCall("a")
    \/ \E r \in RunIds : RunSettle(r)

SpecStorage == Init /\ [][NextStorage]_vars

\* the manager running actions of every variant, with and without the host's
\* callbacks and listeners
VariantDefs ==
    {HttpDef, GraphQLDef, UpdateWidgetDef(LabelUpdates),
     NavigateDef("/users/{{ widgets.input1.value }}"), NavigateDef("/home"),
     OpenModalDef, CloseModalDef, AlertDef("Saved {{ window.x }}"), ToastDef("Hello"),
     StorageDef("get"), StorageDef("bogus"), ClipboardDef("{{ store.x }}.csv"),
     DownloadDef("/home", "{{ store.x }}.csv"), RunJSDef("window.x"),
     RunJSDef("store.x"), UnknownDef}

NextVariants ==
    \/ \E d \in VariantDefs : RegisterAction("a", d)
    \/ \E i \in ActionIds, l \in ListenerFns : AddListener(i, l)
    \/ OnWidgetUpdate
    \/ OnNavigation
    \/ OnModal
    \/ \E i \in ActionIds : RunCall(i)
    \/ \E r \in RunIds, p \in NetResponses : FetchResponds(r, p)
    \/ \E r \in RunIds : FetchFails(r)
    \/ \E r \in RunIds : FetchTimesOut(r)
    \/ \E r \in RunIds : BodyArrives(r)
    \/ \E r \in RunIds : BodyFails(r)
    \/ \E r \in RunIds : RunSettle(r)

SpecVariants == Init /\ [][NextVariants]_vars

\* the manager running localStorage actions over two keys and the JSON
\* values whose texts or truth values differ in kind
ItemKeys == {"k", "j"}
JSONValues == {Str("v"), Str(""), Num(0), Bool(FALSE), Null}
ItemDefs ==
    {StorageItemDef("set", k, v) : k \in ItemKeys, v \in JSONValues}
        \cup {StorageItemDef(op, k, Null) : op \in {"get", "remove"}, k \in ItemKeys}
        \cup {StorageItemDef("clear", "k", Null)}

NextItems ==
    \/ \E i \in ActionIds, d \in ItemDefs : RegisterAction(i, d)
    \/ \E i \in ActionIds : RunCall(i)
    \/ \E r \in RunIds : RunSettle(r)
    \/ \E ids \in ChainLists : ChainCall(ids)
    \/ ChainStep

SpecItems == Init /\ [][NextItems]_vars

\* the manager running http actions with templated requests while the host
\* updates the context and registers the actions again
RequestDefs == {HttpTemplatedDef, HttpDef}

NextRequests ==
    \/ \E i \in ActionIds, d \in RequestDefs : RegisterAction(i, d)
    \/ \E p \in TemplatePartials : UpdateContext(p) /\ UNCHANGED <<managerVars, appVars>>
    \/ \E i \in ActionIds : RunCall(i)
    \/ \E r \in RunIds, p \in {Resp200, Resp500, Resp204} : FetchResponds(r, p)
    \/ \E r \in RunIds : FetchFails(r)
    \/ \E r \in RunIds : FetchTimesOut(r)
    \/ \E r \in RunIds : BodyArrives(r)
    \/ \E r \in RunIds : BodyFails(r)
    \/ \E r \in RunIds : RunSettle(r)

SpecRequests == Init /\ [][NextRequests]_vars

\* the page running: the renderer renders and runs its effects while
\* updateWidget actions are registered and run
InputUpdateDef(value) ==
    [type |-> "updateWidget",
     config |-> [widgetId |-> "input1", updates |-> <<[key |-> "value", value |-> value]>>]]

RendererDefs == {InputUpdateDef(Str("Yo")), InputUpdateDef(Str("")), UpdateWidgetDef(LabelUpdates)}

NextRenderer ==
    \/ RenderPage
    \/ RunEffects
    \/ \E i \in ActionIds, d \in RendererDefs : RegisterAction(i, d)
    \/ \E i \in ActionIds : RunCall(i)
    \/ \E r \in RunIds : RunSettle(r)

SpecRenderer == Init /\ [][NextRenderer]_vars

----------------------------------------------------------------------------
(* Claims about the ExpressionEngine, checked under SpecEngine              *)

\* C4 as stated: for every expression that evaluates successfully, every
\* evaluate call after the first one since the last updateContext does not
\* execute the sandboxed code and returns the value the first call returned.
C4_OncePerUpdateContext ==
    (elast.evaluated /\ Succeeds(elast.expression, context, counter) /\ ~elast.firstU)
        => (~elast.executed /\ elast.ret = seenU[elast.expression])

\* C4 amended: for every expression that evaluates successfully, every
\* evaluate call after the first one since the cache was last emptied (by
\* updateContext or by clearCache) is answered without executing the
\* sandboxed code and returns the value the first call returned, so the
\* counting utility advances at most once per expression text.
C4_OncePerCacheGeneration ==
    (elast.evaluated /\ Succeeds(elast.expression, context, counter) /\ ~elast.first)
        => (~elast.executed /\ elast.hit /\ elast.ret = seen[elast.expression])

\* a repeated evaluate of the counting expression was answered from the
\* cache after the utility had run once
C4_Witness ==
    /\ elast.op = "evaluate"
    /\ elast.expression = "utils.tick()"
    /\ ~elast.first
    /\ elast.hit
    /\ elast.ret = Return(Num(1))
    /\ counter = 1

\* C5: right after updateContext the cache is empty, every cached value of
\* a context-reading expression is the value the current context gives it,
\* and an evaluate of such an expression returns the value computed from
\* the current context.
C5_UpdateContextInvalidates ==
    /\ elast.op = "updateContext" => cache = EmptyMap
    /\ \A e \in DOMAIN cache \cap PureExprs :
            cache[e].value = FreshValue(e, context)
    /\ (elast.evaluated /\ elast.expression \in PureExprs /\ elast.ret.k = "return")
            => elast.ret.value = FreshValue(elast.expression, context)

\* store.x was cached, updateContext changed store.x, and the evaluate that
\* followed returned the new value
C5_Witness ==
    /\ elast.op = "evaluate"
    /\ elast.expression = "store.x"
    /\ "store.x" \in DOMAIN stale
    /\ elast.ret.k = "return"
    /\ elast.ret.value # stale["store.x"]
    /\ elast.ret.value = MapGet(context.store, "x")

\* the text includes one of the denylisted substrings
Denylisted(expression) == \E i \in 1..Len(forbidden) : i \in forbiddenHits[expression]

ForbiddenPrefix == "Forbidden keyword in expression: "

\* C6: an expression whose text includes a denylisted substring is never in
\* the cache, and an evaluate of it executes nothing and is not answered by
\* the cache: it throws the forbidden-keyword error when throwOnError is
\* set and returns undefined otherwise.
C6_DenylistNeverExecutes ==
    /\ \A e \in Exprs : Denylisted(e) => e \notin DOMAIN cache
    /\ (elast.op = "evaluate" /\ Denylisted(elast.expression))
        => /\ ~elast.executed
           /\ ~elast.hit
           /\ elast.throwOnError =>
                /\ elast.ret.k = "throw"
                /\ SubSeq(elast.ret.message, 1, Len(ForbiddenPrefix)) = ForbiddenPrefix
           /\ ~elast.throwOnError => elast.ret = Return(Undefined)

\* a denylisted expression was refused with the error while other
\* expressions were cached
C6_Witness ==
    /\ elast.op = "evaluate"
    /\ elast.expression = "window.x"
    /\ elast.throwOnError
    /\ elast.ret = Throw("Forbidden keyword in expression: window")
    /\ cache # EmptyMap

\* C7 as stated: an evaluate of an expression whose execution against the
\* current context raises a runtime error throws that error when
\* throwOnError is set, and returns undefined when it is not.
C7_RuntimeErrorThrows ==
    (elast.op = "evaluate" /\ RuntimeFails(elast.expression, context, counter))
        => /\ elast.throwOnError =>
                elast.ret = Body(elast.expression, context, counter, storage).out
           /\ ~elast.throwOnError => elast.ret = Return(Undefined)

----------------------------------------------------------------------------
(* Claims about the ActionManager, checked under Spec                       *)

\* C1 as stated: a run of an id without a definition resolves to the
\* not-found failure, and getResult of that id right afterwards returns
\* that same result.
C1_NotFoundIsStored ==
    (alast.op = "run" /\ ~alast.found)
        => /\ alast.ret = Resolved(NotFound(alast.id))
           /\ getResult(alast.id) = NotFound(alast.id)

\* the results of a chain that stopped or is under way: all but the last
\* are successes
SuccessesBeforeLast(rs) == \A j \in 1..(Len(rs) - 1) : rs[j].success

ChainRunning == {r \in RunIds : runs[r].pc \in InFlight /\ runs[r].owner = "chain"}

\* C3: at most one run of the chain is under way at any time, it is the
\* run the chain awaits, and it is the run of the position that follows the
\* results obtained so far; while no chain awaits, no run of a chain is
\* under way.
C3_ChainIsSequential ==
    /\ Cardinality(ChainRunning) <= 1
    /\ ChainRunning # {}
        => /\ chain.pc = "await"
           /\ ChainRunning = {chain.slot}
           /\ runs[chain.slot].id = chain.ids[chain.i]
           /\ Len(chain.started) = Len(chain.results) + 1
    /\ \A r \in RunIds : (runs[r].pc = "done") => (chain.pc = "await" /\ chain.slot = r)

\* the chain awaits the request of its second action while a run the host
\* started is under way as well
C3_Witness ==
    /\ chain.pc = "await"
    /\ chain.i = 2
    /\ runs[chain.slot].pc = "fetch"
    /\ \E r \in RunIds : runs[r].pc \in InFlight /\ runs[r].owner = "host"

\* the calls notifyListeners makes for result when none of the listeners throws
AllNotified(actionId, result) ==
    LET list == IF actionId \in DOMAIN listeners THEN listeners[actionId] ELSE <<>>
    IN  [i \in 1..Len(list) |-> [listener |-> list[i], result |-> result]]

\* C8 as stated: a run of a registered action whose executor raises an
\* error resolves to {success: false, error: <message>}, that result is
\* the stored result of the id, and the listeners of the id were notified
\* with it.
C8_ExecutorErrorIsNormalized ==
    (alast.op = "run" /\ alast.found /\ alast.out.k = "throw")
        => /\ alast.ret = Resolved(Failure(alast.out.message))
           /\ getResult(alast.id) = Failure(alast.out.message)
           /\ alast.called = AllNotified(alast.id, Failure(alast.out.message))

\* C9: right after unregisterAction(id) the id has no definition, no
\* stored result and no listeners; only a run call of an id that has a
\* definition goes on to an executor, and a run that found no definition
\* produces the not-found failure; and no run of an id calls a listener
\* that unregisterAction dropped for that id and that was not added again.
C9_UnregisterDropsEverything ==
    /\ alast.op = "unregisterAction"
        => /\ alast.id \notin DOMAIN actions
           /\ alast.id \notin DOMAIN listeners
           /\ getResult(alast.id) = Undefined
    /\ alast.op = "runCall" => alast.id \in DOMAIN actions
    /\ (alast.op = "run" /\ ~alast.found)
        => /\ alast.id \notin DOMAIN actions
           /\ alast.ret.k = "resolved" => alast.ret.value = NotFound(alast.id)
           /\ \A j \in 1..Len(alast.called) :
                alast.called[j].result = NotFound(alast.id)
    /\ alast.op = "run"
        => \A j \in 1..Len(alast.called) :
                alast.called[j].listener \notin dropped[alast.id]

\* a listener was added for a, a was unregistered, and the run of a that
\* followed found no definition and called nobody
C9_Witness ==
    /\ alast.op = "run"
    /\ alast.id = "a"
    /\ ~alast.found
    /\ dropped["a"] # {}
    /\ alast.called = <<>>
    /\ alast.ret = Resolved(NotFound("a"))

\* C10: a run that overlapped another run of the same id has executed its
\* executor, stored a result and called listeners; when it resolves, its
\* result is the stored result of the id (the run that completes last
\* wins, whichever started first) and all listeners of the id were
\* notified with it; when a listener made it reject, the stored result of
\* the id is the failure it stored last, the one its last listener call
\* received.
C10_LastCompletedRunWins ==
    (alast.op = "run" /\ alast.found /\ (alast.joined \/ alast.joinedBy))
        => /\ alast.out # Pending
           /\ alast.id \in DOMAIN results
           /\ alast.ret.k = "resolved"
                => /\ getResult(alast.id) = alast.ret.value
                   /\ alast.called = AllNotified(alast.id, alast.ret.value)
           /\ alast.ret.k = "rejected"
                => /\ alast.called # <<>>
                   /\ getResult(alast.id) = alast.called[Len(alast.called)].result
                   /\ ~alast.called[Len(alast.called)].result.success

\* of two overlapping runs of a, the one that started first completed last
\* and its result replaced the one the other run had stored
C10_Witness ==
    /\ alast.op = "run"
    /\ alast.id = "a"
    /\ alast.joinedBy
    /\ ~alast.joined
    /\ alast.ret = Resolved(HttpError.value)
    /\ \A r \in RunIds : runs[r].pc = "idle"
    /\ getResult("a") = HttpError.value

----------------------------------------------------------------------------
(* Claims about updateWidget and runJS actions, checked under SpecWidgets   *)

\* the evaluation of expression against ctx fails: the denylist refuses
\* it, it does not compile, or its execution raises an error
FailsIn(expression, ctx) ==
    \/ Denylisted(expression)
    \/ ~Parses(expression)
    \/ RuntimeFails(expression, ctx, counter)

\* the evaluation of expression against the current context fails
Fails(expression) == FailsIn(expression, context)

\* the value an update entry stands for: the value of the expression its
\* marker encloses, evaluated against ctx, or the value itself when it has
\* no marker
ExpectedUpdate(entry, ctx) ==
    IF entry.value.t = "string" /\ hasExpression(entry.value.s)
    THEN FreshValue(extractExpressions(entry.value.s)[1], ctx)
    ELSE entry.value

\* C11 as stated: a run of an updateWidget action hands the widget-update
\* callback the widget id and, entry by entry, the value of the enclosed
\* expression in the context of the run for a field with a marker and the
\* field itself otherwise.
C11_UpdateWidgetDelivers ==
    (alast.op = "runCall" /\ alast.action.type = "updateWidget" /\ widgetUpdateCallback)
        => /\ delivered # <<>>
           /\ LET call == delivered[Len(delivered)]
                  updates == alast.action.config.updates
              IN  /\ call.widgetId = alast.action.config.widgetId
                  /\ Len(call.updates) = Len(updates)
                  /\ \A n \in 1..Len(updates) :
                        /\ call.updates[n].key = updates[n].key
                        /\ call.updates[n].value =
                              ExpectedUpdate(updates[n], alast.context)

\* C15 as stated: the executor of a runJS action returns a failure with an
\* error message when the evaluation of its code against the context of
\* the run fails, and {success: true, data: <value of the code>} otherwise,
\* whatever was evaluated before.
C15_RunJSReportsOutcome ==
    (alast.op = "runCall" /\ alast.action.type = "runJS")
        => LET code == alast.action.config.code
           IN  /\ alast.out.k = "return"
               /\ IF FailsIn(code, alast.context)
                  THEN /\ ~alast.out.value.success
                       /\ "error" \in DOMAIN alast.out.value
                  ELSE alast.out.value =
                          [success |-> TRUE, data |-> FreshValue(code, alast.context)]

----------------------------------------------------------------------------
(* Claims about the sandbox and localStorage actions, checked under         *)
(* SpecStorage                                                              *)

\* C14 as stated: an evaluate of an expression that passes the denylist
\* gives the outcome it gives when window.localStorage is empty, and
\* leaves window.localStorage as it was.
C14_NoAmbientScope ==
    (elast.op = "evaluate" /\ ~Denylisted(elast.expression))
        => /\ elast.ret = elast.sealed
           /\ ~elast.touched

\* C20: the executor of a localStorage get action whose key is not in the
\* store returns {success: true, data: null} and leaves the store as it
\* found it.
C20_GetOfAbsentKeyIsNull ==
    (/\ alast.op = "runCall"
     /\ alast.action.type = "localStorage"
     /\ alast.action.config.operation = "get"
     /\ alast.action.config.key \notin DOMAIN alast.before)
        => /\ alast.out = Return([success |-> TRUE, data |-> Null])
           /\ alast.after = alast.before

\* the key had been set and removed again when the get action ran, and the
\* action returned null
C20_Witness ==
    /\ alast.op = "runCall"
    /\ alast.action = StorageDef("get")
    /\ alast.out = Return([success |-> TRUE, data |-> Null])
    /\ "localStorage.setItem('k', 'x')" \in DOMAIN cache
    /\ "localStorage.removeItem('k')" \in DOMAIN cache
    /\ "k" \notin DOMAIN storage

----------------------------------------------------------------------------
(* Claims about templates and dependencies, checked under SpecTemplate      *)

\* the text has a marker: two opening braces, one or more characters none
\* of which is a closing brace, two closing braces
HasMarker(text) ==
    \E i, j \in 1..Len(text) :
        /\ j > i + 2
        /\ j + 1 <= Len(text)
        /\ SubSeq(text, i, i + 1) = "{{"
        /\ SubSeq(text, j, j + 1) = "}}"
        /\ \A k \in (i + 2)..(j - 1) : Char(text, k) # "}"

\* the templates without a marker
unmarked == {t \in Templates : ~HasMarker(t)}

\* C16: evaluateTemplate of a template without a marker returns the
\* template, passes nothing to evaluate and leaves the cache as it was.
C16_UnmarkedTemplateUnchanged ==
    (elast.op = "evaluateTemplate" /\ elast.template \in unmarked)
        => /\ elast.ret = Return(elast.template)
           /\ elast.sources = <<>>
           /\ cache = elast.cacheBefore

\* a text with braces that form no marker came back unchanged while the
\* cache held entries of other templates
C16_Witness ==
    /\ elast.op = "evaluateTemplate"
    /\ elast.template = "a } b {{}}"
    /\ elast.ret = Return("a } b {{}}")
    /\ cache # EmptyMap

\* the text a lenient evaluateTemplate is to build from the n-th marker on:
\* a failing sub-expression gives the empty string, every other one the
\* text of its value in the current context
RECURSIVE Render(_, _, _)
Render(template, n, from) ==
    LET ms == markers[template] IN
    IF n > Len(ms) THEN SubSeq(template, from, Len(template))
    ELSE LET e == Trim(ms[n].group)
         IN  SubSeq(template, from, ms[n].from - 1)
               \o (IF Fails(e) THEN "" ELSE ToText(FreshValue(e, context)))
               \o Render(template, n + 1, ms[n].to + 1)

\* C17 as stated: with throwOnError unset evaluateTemplate evaluates every
\* marker and returns the template with each failing sub-expression
\* replaced by the empty string; with throwOnError set and a failing
\* sub-expression it throws, having evaluated the markers up to the first
\* failing one and none after it.
C17_TemplateErrorHandling ==
    (elast.op = "evaluateTemplate" /\ elast.template # "")
        => LET all == extractExpressions(elast.template)
               failing == {i \in 1..Len(all) : Fails(all[i])}
           IN  IF elast.throwOnError /\ failing # {}
               THEN /\ elast.ret.k = "throw"
                    /\ elast.sources = SubSeq(all, 1, Min(failing))
               ELSE /\ elast.ret = Return(Render(elast.template, 1, 1))
                    /\ elast.sources = all

\* the position of the first occurrence of dep in text
FirstAt(text, dep) ==
    Min({i \in 1..(Len(text) - Len(dep) + 1) : SubSeq(text, i, i + Len(dep) - 1) = dep})

\* every widgets, actions and page reference of the text
AllReferences(text) ==
    LET all == References(text, "widgets.", 1) \o References(text, "actions.", 1)
                 \o References(text, "page.", 1)
    IN  {all[i].dep : i \in 1..Len(all)}

\* C18 as stated: getDependencies returns every reference of the text
\* once, in the order of their first occurrences in the text.
C18_DependenciesInTextOrder ==
    elast.op = "getDependencies"
        => LET deps == elast.ret
               text == elast.expression
           IN  /\ {deps[i] : i \in 1..Len(deps)} = AllReferences(text)
               /\ \A i, j \in 1..Len(deps) :
                     i < j => FirstAt(text, deps[i]) < FirstAt(text, deps[j])

----------------------------------------------------------------------------
(* Claims about http and graphql actions, checked under SpecNet             *)

\* C12 as stated: a run of an http action whose timer fired while the
\* request was pending resolves to the failure that carries the abort
\* error, that failure is the stored result and every listener received it.
C12_TimeoutResolvesToFailure ==
    (alast.op = "run" /\ alast.found /\ alast.out = AbortError)
        => /\ alast.ret = Resolved(Failure(AbortError.message))
           /\ getResult(alast.id) = Failure(AbortError.message)
           /\ alast.called = AllNotified(alast.id, Failure(AbortError.message))

C19_StatusDecidesResult ==
    (alast.op = "run" /\ alast.found /\ alast.type = "http"
        /\ alast.response # NoResponse)
        => /\ alast.out.k = "return"
           /\ "data" \in DOMAIN alast.out.value
           /\ alast.out.value.success = Ok(alast.response)
           /\ ~Ok(alast.response)
                => alast.out.value.error =
                      "HTTP " \o ToString(alast.response.status) \o ": "
                         \o alast.response.statusText

----------------------------------------------------------------------------
(* Claims about the HistoryManager, checked under SpecHistory               *)

\* the number of undo calls in a row that return an entry
RECURSIVE UndoSteps(_)
UndoSteps(h) == IF undo(h).ret = Null THEN 0 ELSE 1 + UndoSteps(undo(h).h)

\* C26: the history never holds more than 50 entries and currentIndex
\* points into it (or is -1); an addEntry made when 50 entries are current
\* leaves the 49 newest of them in their order followed by the new entry,
\* with 50 undo steps available; any other addEntry leaves the current
\* entries in their order followed by the new one.
C26_HistoryIsBounded ==
    /\ Len(history) <= 50
    /\ currentIndex >= -1
    /\ currentIndex < Len(history)
    /\ (hlast.op = "addEntry" /\ Len(Slice(hlast.before)) = 50)
          => /\ history = Tail(Slice(hlast.before)) \o <<hlast.entry>>
             /\ Len(history) = 50
             /\ UndoSteps(History) = 50
    /\ (hlast.op = "addEntry" /\ Len(Slice(hlast.before)) < 50)
          => /\ history = Slice(hlast.before) \o <<hlast.entry>>
             /\ UndoSteps(History) = Len(history)

\* the 52nd entry was added to a full history: the two oldest entries are
\* gone and the newest is current
C26_Witness ==
    /\ hlast.op = "addEntry"
    /\ hlast.entry.id = 52
    /\ Len(hlast.before.history) = 50
    /\ Len(history) = 50
    /\ history[1].id = 3
    /\ history[50].id = 52
    /\ currentIndex = 49

----------------------------------------------------------------------------
(* Further claims about the ExpressionEngine, checked under SpecEngine      *)

\* C24: after updateContext(partial) every namespace partial has holds
\* what partial holds for it, and every other namespace what it held before
\* the call.
C24_UpdateContextMerges ==
    elast.op = "updateContext"
        => /\ DOMAIN elast.after = Namespaces
           /\ \A ns \in Namespaces :
                 elast.after[ns] = IF ns \in DOMAIN elast.partial
                                   THEN elast.partial[ns]
                                   ELSE elast.before[ns]

\* the host had installed its own utility set and filled the store; an
\* updateContext of the widgets alone kept both
C24_Witness ==
    /\ elast.op = "updateContext"
    /\ DOMAIN elast.partial = {"widgets"}
    /\ elast.before.utils = TickUtils
    /\ elast.before.store # EmptyMap
    /\ elast.after.widgets # elast.before.widgets
    /\ context.utils = TickUtils
    /\ context.store = elast.before.store

\* C27 as stated: an evaluate call whose expression the denylist refuses,
\* that does not compile, or whose execution raises an error leaves the
\* cache as it found it, whatever throwOnError is.
C27_OnlySuccessesAreCached ==
    (elast.op = "evaluate" /\ FailsIn(elast.expression, elast.context))
        => elast.cacheAfter = elast.cacheBefore

----------------------------------------------------------------------------
(* Further claims about templates, checked under SpecTemplate               *)

\* the sources of the markers of each template, read off the template by
\* hand: left to right, trimmed, duplicates kept
MarkerSources ==
    [t \in Templates |->
        CASE t = "{{ store.x }}" -> <<"store.x">>
          [] t = "Hi {{ widgets.input1.value }} and {{ store.x }}!" ->
                <<"widgets.input1.value", "store.x">>
          [] t = "{{ window.x }}-{{ store.x }}" -> <<"window.x", "store.x">>
          [] t = "{{store.x}} {{ store.x }}{{ }}" -> <<"store.x", "store.x", "">>
          [] OTHER -> <<>>]

\* C25: extractExpressions(text) returns the sources of the markers of
\* text from left to right with duplicates; an evaluateTemplate(text) call
\* passes exactly these, in this order, to evaluate; and hasExpression(text)
\* is true exactly when text has a well-formed marker, which is when that
\* sequence is not empty.
C25_ExtractMatchesTemplate ==
    /\ elast.op = "extractExpressions" => elast.ret = MarkerSources[elast.text]
    /\ (elast.op = "evaluateTemplate" /\ ~elast.throwOnError)
          => elast.sources = extractExpressions(elast.template)
    /\ elast.op = "hasExpression"
          => /\ elast.ret = (extractExpressions(elast.text) # <<>>)
             /\ elast.ret = (elast.text \notin unmarked)

\* a template with the same expression in two markers and an empty third
\* marker was rendered: evaluate received all three sources in order
C25_Witness ==
    /\ elast.op = "evaluateTemplate"
    /\ ~elast.throwOnError
    /\ elast.template = "{{store.x}} {{ store.x }}{{ }}"
    /\ elast.sources = <<"store.x", "store.x", "">>
    /\ elast.ret = Return("1 1")

----------------------------------------------------------------------------
(* Further claims about the ActionManager, checked under Spec               *)

\* the action is a localStorage action whose operation the executor does
\* not know
UnknownOperation(action) ==
    /\ action.type = "localStorage"
    /\ action.config.operation \notin {"get", "set", "remove", "clear"}

\* C21 as stated: the executor of a localStorage action with an unknown
\* operation leaves the store as it found it, and the run of the action
\* resolves to the failure whose error names the operation.
C21_UnknownOperationFails ==
    /\ (alast.op = "runCall" /\ UnknownOperation(alast.action))
          => alast.after = alast.before
    /\ (alast.op = "run" /\ alast.found /\ UnknownOperation(alast.action))
          => alast.ret = Resolved(Failure("Unknown localStorage operation: "
                                            \o alast.action.config.operation))

\* the listeners a run called
Notified == {alast.called[j].listener : j \in 1..Len(alast.called)}

\* the listeners of an id: those added for it and neither removed nor
\* dropped since
ListenersOf(actionId) ==
    IF actionId \in DOMAIN listeners
    THEN {listeners[actionId][i] : i \in 1..Len(listeners[actionId])}
    ELSE {}

\* C23 as stated: the listeners a completed run of id called are exactly
\* the listeners of id.
C23_ExactlyTheListenersOfTheId ==
    alast.op = "run" => Notified = ListenersOf(alast.id)

\* C28 as stated: a run of a registered id resolves to a result, has
\* called every listener of the id once with that result, in order, and
\* nothing else, and getResult of the id right afterwards returns it.
C28_EachListenerOnceWithTheResult ==
    (alast.op = "run" /\ alast.found)
        => /\ alast.ret.k = "resolved"
           /\ alast.called = AllNotified(alast.id, alast.ret.value)
           /\ getResult(alast.id) = alast.ret.value

\* C29 as stated: an id that was unregistered and not run since has no
\* stored result.
C29_NoResultAfterUnregister ==
    \A id \in ActionIds : unregistered[id] => getResult(id) = Undefined

----------------------------------------------------------------------------
(* Claims about the variants, checked under SpecVariants                    *)

\* the variants whose executors report success unconditionally
HostVariants ==
    {"updateWidget", "navigate", "openModal", "closeModal", "showAlert", "showToast"}

\* C22 as stated: the executor of an action of one of the six variants
\* returns a success, and the run of the action resolves to a success.
C22_HostActionsSucceed ==
    /\ (alast.op = "runCall" /\ alast.action.type \in HostVariants)
          => /\ alast.out.k = "return"
             /\ alast.out.value.success
    /\ (alast.op = "run" /\ alast.found /\ alast.action.type \in HostVariants)
          => /\ alast.ret.k = "resolved"
             /\ alast.ret.value.success

\* result has the shape of an ActionResult: a boolean success, an error
\* string when it is a failure and no error when it is a success
WellFormed(result) ==
    /\ "success" \in DOMAIN result
    /\ result.success \in BOOLEAN
    /\ ~result.success => ("error" \in DOMAIN result /\ result.error \in STRING)
    /\ result.success => "error" \notin DOMAIN result

\* C30: every stored result, every result a run resolved to and every
\* result a listener received has the shape of an ActionResult.
C30_ResultsAreWellFormed ==
    /\ \A id \in DOMAIN results : WellFormed(results[id])
    /\ alast.op = "run"
          => /\ alast.ret.k = "resolved" => WellFormed(alast.ret.value)
             /\ \A j \in 1..Len(alast.called) : WellFormed(alast.called[j].result)

\* a listener received the failure of an http action that carries the
\* body of the response as data
C30_Witness ==
    /\ alast.op = "run"
    /\ alast.found
    /\ alast.action.type = "http"
    /\ alast.ret = Resolved(HttpError.value)
    /\ alast.called # <<>>
    /\ getResult(alast.id) = HttpError.value

\* C31: the http timeout covers the whole run: no http run is still waiting
\* for the network (headers or body) once its configured timeout has
\* elapsed, and the executor of every http run whose timeout elapsed ended
\* with the abort error, which run turns into a failure
C31_TimeoutCoversTheWholeRun ==
    /\ \A r \in RunIds :
          (runs[r].pc \in {"fetch", "body"} /\ runs[r].type = "http")
              => ~runs[r].elapsed
    /\ (alast.op = "run" /\ alast.found /\ alast.type = "http" /\ alast.elapsed)
          => alast.out = AbortError

\* C32: registerAction with an id that is already registered replaces only
\* the definition: after the call the id has the new definition, its
\* listeners and its stored result are what they were, and no other id's
\* definition, listeners or result is changed
C32_RegisterReplacesOnlyTheDefinition ==
    [][(alast'.op = "registerAction" /\ calls' = calls + 1
            /\ alast'.id \in DOMAIN actions)
         => /\ actions'[alast'.id] = alast'.def
            /\ DOMAIN actions' = DOMAIN actions
            /\ \A j \in DOMAIN actions \ {alast'.id} : actions'[j] = actions[j]
            /\ listeners' = listeners
            /\ results' = results]_vars

\* a definition was replaced by a different one while its id had a stored
\* result
C32_Witness ==
    /\ alast.op = "registerAction"
    /\ alast.previous # Undefined
    /\ alast.previous # alast.def
    /\ actions[alast.id] = alast.def
    /\ alast.id \in DOMAIN results

\* what a template gives when it is resolved against the context ctx with
\* nothing cached, and the request of an http action whose url, header
\* values and body are resolved so
Rendering(template, ctx) ==
    evaluateTemplate([Engine EXCEPT !.context = ctx, !.cache = EmptyMap],
                     template, FALSE).ret.value

FreshRequest(action, ctx) ==
    LET headers == ConfigOr(action.config, "headers", <<>>)
    IN  [url |-> Rendering(action.config.url, ctx),
         headers |-> [i \in 1..Len(headers) |->
                        [key |-> headers[i].key,
                         value |-> Rendering(headers[i].value, ctx)]],
         body |-> IF "body" \in DOMAIN action.config
                  THEN Str(Rendering(action.config.body, ctx))
                  ELSE Undefined]

\* C33: the url, header values and body of an http request are resolved
\* against the context that is current when run is invoked, and the request
\* is issued once, then: whatever updateContext and registerAction do while
\* it is in flight, the request of the run stays the rendering against the
\* context of the invocation, and the result the run returns and stores is
\* the one the response gives
C33_RequestFixedAtInvocation ==
    /\ \A r \in RunIds :
          (runs[r].pc \in InFlight /\ runs[r].type = "http")
              => /\ runs[r].request = FreshRequest(runs[r].action, runs[r].context)
                 /\ runs[r].requests = 1
    /\ (alast.op = "run" /\ alast.found /\ alast.type = "http")
          => /\ alast.request = FreshRequest(alast.action, alast.context)
             /\ alast.out.k = "return" => alast.out = httpResult(alast.response)
             /\ alast.ret.k = "resolved"
                   => /\ getResult(alast.id) = alast.ret.value
                      /\ alast.out.k = "return" => alast.ret.value = alast.out.value

\* an http run with a templated request settled after the context was
\* updated and the action registered again while it was in flight: the
\* request it sent is not the one the state of the settlement would give
C33_Witness ==
    /\ alast.op = "run" /\ alast.found /\ alast.type = "http"
    /\ alast.action = HttpTemplatedDef
    /\ alast.ret.k = "resolved" /\ alast.ret.value.success
    /\ context # alast.context
    /\ MapGet(actions, alast.id) = HttpDef
    /\ alast.request # FreshRequest(alast.action, context)
    /\ alast.request.url = "/api/users/Hi"

\* what a get action of key returns on store
GetOf(store, key) ==
    executeLocalStorageAction(StorageItemDef("get", key, Null), store).out

\* the keys other than key hold in after what they held in before
OthersKept(before, after, key) ==
    \A j \in ItemKeys \ {key} :
        /\ j \in DOMAIN after <=> j \in DOMAIN before
        /\ j \in DOMAIN before => after[j] = before[j]

\* C34: on the store a set of (k, v) leaves, a get of k returns
\* {success: true, data: v}; on the store a remove of k or a clear leaves,
\* a get of k returns data null; set and remove of k leave the other keys
\* as they were; and a get that runs on a store where k holds the text of v
\* returns data v and writes nothing
C34_SetGetRemove ==
    (alast.op = "runCall" /\ alast.action.type = "localStorage")
        => /\ alast.action.config.operation = "set"
                => /\ GetOf(alast.after, alast.action.config.key)
                        = Return([success |-> TRUE,
                                  data |-> alast.action.config.value])
                   /\ OthersKept(alast.before, alast.after, alast.action.config.key)
           /\ alast.action.config.operation = "remove"
                => /\ GetOf(alast.after, alast.action.config.key)
                        = Return([success |-> TRUE, data |-> Null])
                   /\ OthersKept(alast.before, alast.after, alast.action.config.key)
           /\ alast.action.config.operation = "clear"
                => \A k \in ItemKeys :
                      GetOf(alast.after, k) = Return([success |-> TRUE, data |-> Null])
           /\ alast.action.config.operation = "get"
                => /\ alast.after = alast.before
                   /\ \A v \in JSONValues :
                         (/\ alast.action.config.key \in DOMAIN alast.before
                          /\ alast.before[alast.action.config.key] = Stringify(v))
                            => alast.out = Return([success |-> TRUE, data |-> v])

\* a get ran on the store a set of the same key had left with the empty
\* string in it (the store is written by the localStorage actions only),
\* and returned the empty string
C34_Witness ==
    /\ alast.op = "runCall"
    /\ alast.action = StorageItemDef("get", "k", Null)
    /\ alast.before = [k |-> Stringify(Str(""))]
    /\ alast.out = Return([success |-> TRUE, data |-> Str("")])

\* C35: right after addEntry no entry is redoable: canRedo() is false,
\* canUndo() is true, and undo() called next returns the entry just added
C35_AddEntryDiscardsRedo ==
    hlast.op = "addEntry"
        => /\ ~canRedo(History)
           /\ canUndo(History)
           /\ undo(History).ret = hlast.entry

\* an entry was added after two undo calls: the two redoable entries are
\* gone
C35_Witness ==
    /\ hlast.op = "addEntry"
    /\ canRedo(hlast.before)
    /\ Len(hlast.before.history) = hlast.before.currentIndex + 3
    /\ Len(history) = Len(hlast.before.history) - 1
    /\ history[Len(history)] = hlast.entry

\* C36: after an undo() that returned an entry, redo() returns the same
\* entry and restores the fields of before the undo; after a redo() that
\* returned an entry, undo() does likewise; undo() returns null exactly when
\* canUndo() was false, redo() exactly when canRedo() was false, and then
\* the fields are unchanged
C36_UndoRedoInverse ==
    /\ hlast.op = "undo"
          => /\ hlast.ret = Null <=> ~canUndo(hlast.before)
             /\ hlast.ret = Null => History = hlast.before
             /\ hlast.ret # Null
                   => redo(History) = [ret |-> hlast.ret, h |-> hlast.before]
    /\ hlast.op = "redo"
          => /\ hlast.ret = Null <=> ~canRedo(hlast.before)
             /\ hlast.ret = Null => History = hlast.before
             /\ hlast.ret # Null
                   => undo(History) = [ret |-> hlast.ret, h |-> hlast.before]

\* a redo that followed two undo calls returned the entry the second undo
\* had returned
C36_Witness ==
    /\ hlast.op = "redo"
    /\ hlast.ret # Null
    /\ undos = MaxUndos
    /\ canRedo(History)
    /\ canUndo(hlast.before)
    /\ hlast.ret = history[currentIndex + 1]

\* C37: currentIndex is at least -1 and at most history.length - 1
C37_IndexInRange ==
    /\ currentIndex >= -1
    /\ currentIndex <= Len(history) - 1

\* an entry was added to a full log after an undo
C37_Witness ==
    /\ hlast.op = "addEntry"
    /\ Len(hlast.before.history) = maxHistorySize
    /\ canRedo(hlast.before)
    /\ currentIndex = Len(history) - 1

----------------------------------------------------------------------------
(* Claims about the PersistenceService, checked under SpecService           *)

\* the pages of a list
PagesOf(pages) == {pages[i] : i \in 1..Len(pages)}

\* C38: saveProject and updateProject never reject; when they resolve to
\* success=true the project row was written, every page supplied was
\* persisted and (saveProject) the page list was written; when the backend
\* refused a page or the page list the call resolves to success=false; and
\* a result with success=false carries an error
C38_SuccessMeansAllPersisted ==
    slast.op \in {"saveProject", "updateProject"}
        => /\ slast.ret.k = "resolved"
           /\ slast.ret.value.success
                 => /\ slast.row
                    /\ PagesOf(slast.pages) \subseteq slast.saved
                    /\ slast.op = "saveProject" => slast.listed
           /\ slast.refused # {} => ~slast.ret.value.success
           /\ ~slast.ret.value.success => "error" \in DOMAIN slast.ret.value

----------------------------------------------------------------------------
(* Claims about the RuntimeRenderer, checked under SpecRenderer             *)

\* C39: whenever RuntimeRenderer evaluates the props of the components
\* during a render, the widgets of the expression engine's context are the
\* widget state of that render, also in the render that follows a
\* widget-update callback
C39_RenderSeesItsWidgetState ==
    rlast.op = "render" => rlast.context.widgets = rlast.widgetsState

====
